---- MODULE Spec2Model ----
(***************************************************************************)
(* A model of the core of the Game Boy emulator: the CPU micro-op          *)
(* pipeline (src/src/cpu), the MMU with its cartridge controllers and OAM  *)
(* DMA (src/backend/src/memory), the interrupt and timer controller        *)
(* (src/src/interrupt.rs) and the PPU dot machine (src/src/ppu).           *)
(*                                                                         *)
(* Each subsystem has its own specification over the shared variables:     *)
(*   SpecCPU  - CPU::step over a flat lazily-initialised memory            *)
(*   SpecMMU  - MMU read_memory / write_memory / tick                      *)
(*   SpecDMA  - the same MMU actions over the addresses an OAM DMA touches *)
(*   SpecPPU  - PPU::cycle, four per PPU::step                             *)
(*   SpecSerial, SpecPending, SpecIRQ and the others are introduced with   *)
(*   the actions they are made of; SpecLoop and SpecThreads model the      *)
(*   drivers' emulation loop and its host thread.                          *)
(***************************************************************************)
EXTENDS Integers, Sequences, FiniteSets, TLC

VARIABLES
    \* build configuration: TRUE when debug assertions / overflow checks are on
    debug_assertions,
    \* ---- CPU (src/src/cpu/mod.rs) ----
    cpu,            \* the register file: reg_a .. reg_l, flags, sp, pc
    pipeline,       \* VecDeque<MicroOp>
    memory,         \* the CPU's Memory, address -> byte, for the bytes touched so far
    cpu_panicked,   \* the CPU aborted (panic!, unimplemented!, overflow check)
    obs,            \* observation of the instruction in flight (see ObsInit)
    irq,            \* halted / stopped, and observation of interrupt service (see IrqInit)
    \* ---- MMU (src/backend/src/memory/mod.rs) ----
    mmu,            \* the MMU's fields, with the controller, serial sink and interrupt
                    \* controller it owns or shares, and whether an operation aborted
    mmu_obs,        \* observation of the last MMU operations and of the DMA in flight
    \* ---- PPU (src/src/ppu/mod.rs) ----
    ppu,            \* current_dot_in_line, fetcher, fifo, frame, previous_frame
    ppu_obs,        \* observation of the frame in progress
    \* ---- pixel FIFO (src/backend/src/ppu/pixel_fifo.rs) ----
    pixel_fifo,     \* the fetcher, the selected sprites, the two queues, the memory it reads
    fifo_obs,       \* observation of the scanline in progress (see FifoObsInit)
    \* ---- drivers (src/src/main.rs, src/frontend/src) ----
    emu,            \* the emulation loop: its position and what it has run so far
    host            \* the host side: the stop flag, the locks, the event being handled

cpuVars == <<cpu, pipeline, memory, cpu_panicked, obs, irq>>
mmuVars == <<mmu, mmu_obs>>
ppuVars == <<ppu, ppu_obs, pixel_fifo, fifo_obs>>
hostVars == <<emu, host>>
vars == <<debug_assertions, cpuVars, mmuVars, ppuVars, hostVars>>

-----------------------------------------------------------------------------
(* Fixed-width arithmetic *)

U8(x) == x % 256
U16v(x) == x % 65536
U16(high, low) == high * 256 + low
AsI8(b) == IF b >= 128 THEN b - 256 ELSE b
Bit(v, k) == (v \div (2 ^ k)) % 2

RECURSIVE BitAndN(_, _, _)
BitAndN(a, b, n) ==
    IF n = 0 THEN 0
    ELSE ((a % 2) * (b % 2)) + 2 * BitAndN(a \div 2, b \div 2, n - 1)

BitAnd(a, b) == BitAndN(a, b, 16)
BitOr(a, b) == a + b - BitAnd(a, b)
BitXor(a, b) == a + b - 2 * BitAnd(a, b)
BitNot8(a) == 255 - a

-----------------------------------------------------------------------------
(* CPU registers and flags: src/src/cpu/mod.rs *)

ZERO == 128
NEGATIVE == 64
HALF_CARRY == 32
CARRY == 16

\* Flags::from_bits_truncate: only the four defined flag bits survive
from_bits_truncate(value) == (value \div 16) * 16

combine(high, low) == high * 256 + low

load_reg8(c, reg) ==
    CASE reg = "A" -> c.reg_a
      [] reg = "B" -> c.reg_b
      [] reg = "C" -> c.reg_c
      [] reg = "D" -> c.reg_d
      [] reg = "E" -> c.reg_e
      [] reg = "H" -> c.reg_h
      [] reg = "L" -> c.reg_l
      [] reg = "SPHigh" -> c.sp \div 256
      [] reg = "SPLow" -> c.sp % 256
      [] reg = "PCHigh" -> c.pc \div 256
      [] reg = "PCLow" -> c.pc % 256
      [] reg = "Flags" -> c.flags

\* store_reg8 as it would be if F kept all eight bits
store_reg8_keeping_all_bits(c, reg, value) ==
    CASE reg = "A" -> [c EXCEPT !.reg_a = value]
      [] reg = "B" -> [c EXCEPT !.reg_b = value]
      [] reg = "C" -> [c EXCEPT !.reg_c = value]
      [] reg = "D" -> [c EXCEPT !.reg_d = value]
      [] reg = "E" -> [c EXCEPT !.reg_e = value]
      [] reg = "H" -> [c EXCEPT !.reg_h = value]
      [] reg = "L" -> [c EXCEPT !.reg_l = value]
      [] reg = "SPHigh" -> [c EXCEPT !.sp = (c.sp % 256) + value * 256]
      [] reg = "SPLow" -> [c EXCEPT !.sp = (c.sp \div 256) * 256 + value]
      [] reg = "PCHigh" -> [c EXCEPT !.pc = (c.pc % 256) + value * 256]
      [] reg = "PCLow" -> [c EXCEPT !.pc = (c.pc \div 256) * 256 + value]
      [] reg = "Flags" -> [c EXCEPT !.flags = value]
store_reg8(c, reg, value) ==
    CASE reg = "A" -> [c EXCEPT !.reg_a = value]
      [] reg = "B" -> [c EXCEPT !.reg_b = value]
      [] reg = "C" -> [c EXCEPT !.reg_c = value]
      [] reg = "D" -> [c EXCEPT !.reg_d = value]
      [] reg = "E" -> [c EXCEPT !.reg_e = value]
      [] reg = "H" -> [c EXCEPT !.reg_h = value]
      [] reg = "L" -> [c EXCEPT !.reg_l = value]
      [] reg = "SPHigh" -> [c EXCEPT !.sp = (c.sp % 256) + value * 256]
      [] reg = "SPLow" -> [c EXCEPT !.sp = (c.sp \div 256) * 256 + value]
      [] reg = "PCHigh" -> [c EXCEPT !.pc = (c.pc % 256) + value * 256]
      [] reg = "PCLow" -> [c EXCEPT !.pc = (c.pc \div 256) * 256 + value]
      [] reg = "Flags" -> [c EXCEPT !.flags = from_bits_truncate(value)]

load_reg16(c, reg) ==
    CASE reg = "AF" -> combine(c.reg_a, c.flags)
      [] reg = "BC" -> combine(c.reg_b, c.reg_c)
      [] reg = "DE" -> combine(c.reg_d, c.reg_e)
      [] reg = "HL" -> combine(c.reg_h, c.reg_l)
      [] reg = "SP" -> c.sp
      [] reg = "PC" -> c.pc

store_reg16(c, reg, value) ==
    CASE reg = "AF" -> [c EXCEPT !.reg_a = value \div 256,
                                 !.flags = from_bits_truncate(value % 256)]
      [] reg = "BC" -> [c EXCEPT !.reg_b = value \div 256, !.reg_c = value % 256]
      [] reg = "DE" -> [c EXCEPT !.reg_d = value \div 256, !.reg_e = value % 256]
      [] reg = "HL" -> [c EXCEPT !.reg_h = value \div 256, !.reg_l = value % 256]
      [] reg = "SP" -> [c EXCEPT !.sp = value]
      [] reg = "PC" -> [c EXCEPT !.pc = value]

\* Register16::higher_half / lower_half (src/src/cpu/register.rs)
higher_half(reg) ==
    CASE reg = "AF" -> "A" [] reg = "BC" -> "B" [] reg = "DE" -> "D"
      [] reg = "HL" -> "H" [] reg = "SP" -> "SPHigh"
lower_half(reg) ==
    CASE reg = "AF" -> "Flags" [] reg = "BC" -> "C" [] reg = "DE" -> "E"
      [] reg = "HL" -> "L" [] reg = "SP" -> "SPLow"

-----------------------------------------------------------------------------
(* Instruction decoding: src/src/cpu/decode.rs                              *)
(* b0 is the opcode byte, b1 and b2 the bytes that follow it; n is the      *)
(* number of fetch_and_advance calls the decoder makes.                     *)

\* panic!("Unknown opcode") and unimplemented!()
Unknown == [n |-> 0, instr |-> [i |-> "Panic"]]

decode_reg_bit_ops(reg_opcode) ==
    LET regs == <<"B", "C", "D", "E", "H", "L", "HL", "A">>
    IN [reg |-> regs[(reg_opcode % 8) + 1], offset |-> reg_opcode \div 8]

\* decode_bit_test, decode_reset_bit and decode_set_bit
decode_bit_op(name, opcode) ==
    LET bit_opcode == opcode \div 16
        r == decode_reg_bit_ops(opcode % 16)
        bit == 2 * (bit_opcode % 4) + r.offset
    IN IF r.reg = "HL" THEN Unknown
       ELSE [n |-> 2, instr |-> [i |-> name, reg |-> r.reg, bit |-> bit]]

decode_prefix_cb(b1) ==
    CASE b1 = 0 -> [n |-> 2, instr |-> [i |-> "RotateLeft", reg |-> "B"]]
      [] b1 = 1 -> [n |-> 2, instr |-> [i |-> "RotateLeft", reg |-> "C"]]
      [] b1 = 2 -> [n |-> 2, instr |-> [i |-> "RotateLeft", reg |-> "D"]]
      [] b1 = 3 -> [n |-> 2, instr |-> [i |-> "RotateLeft", reg |-> "E"]]
      [] b1 = 4 -> [n |-> 2, instr |-> [i |-> "RotateLeft", reg |-> "H"]]
      [] b1 = 5 -> [n |-> 2, instr |-> [i |-> "RotateLeft", reg |-> "L"]]
      [] b1 = 7 -> [n |-> 2, instr |-> [i |-> "RotateLeft", reg |-> "A"]]
      [] b1 = 8 -> [n |-> 2, instr |-> [i |-> "RotateRight", reg |-> "B"]]
      [] b1 = 9 -> [n |-> 2, instr |-> [i |-> "RotateRight", reg |-> "C"]]
      [] b1 = 10 -> [n |-> 2, instr |-> [i |-> "RotateRight", reg |-> "D"]]
      [] b1 = 11 -> [n |-> 2, instr |-> [i |-> "RotateRight", reg |-> "E"]]
      [] b1 = 12 -> [n |-> 2, instr |-> [i |-> "RotateRight", reg |-> "H"]]
      [] b1 = 13 -> [n |-> 2, instr |-> [i |-> "RotateRight", reg |-> "L"]]
      [] b1 = 15 -> [n |-> 2, instr |-> [i |-> "RotateRight", reg |-> "A"]]
      [] b1 = 16 -> [n |-> 2, instr |-> [i |-> "RotateLeftThroughCarry", reg |-> "B"]]
      [] b1 = 17 -> [n |-> 2, instr |-> [i |-> "RotateLeftThroughCarry", reg |-> "C"]]
      [] b1 = 18 -> [n |-> 2, instr |-> [i |-> "RotateLeftThroughCarry", reg |-> "D"]]
      [] b1 = 19 -> [n |-> 2, instr |-> [i |-> "RotateLeftThroughCarry", reg |-> "E"]]
      [] b1 = 20 -> [n |-> 2, instr |-> [i |-> "RotateLeftThroughCarry", reg |-> "H"]]
      [] b1 = 21 -> [n |-> 2, instr |-> [i |-> "RotateLeftThroughCarry", reg |-> "L"]]
      [] b1 = 23 -> [n |-> 2, instr |-> [i |-> "RotateLeftThroughCarry", reg |-> "A"]]
      [] b1 = 24 -> [n |-> 2, instr |-> [i |-> "RotateRightThroughCarry", reg |-> "B"]]
      [] b1 = 25 -> [n |-> 2, instr |-> [i |-> "RotateRightThroughCarry", reg |-> "C"]]
      [] b1 = 26 -> [n |-> 2, instr |-> [i |-> "RotateRightThroughCarry", reg |-> "D"]]
      [] b1 = 27 -> [n |-> 2, instr |-> [i |-> "RotateRightThroughCarry", reg |-> "E"]]
      [] b1 = 28 -> [n |-> 2, instr |-> [i |-> "RotateRightThroughCarry", reg |-> "H"]]
      [] b1 = 29 -> [n |-> 2, instr |-> [i |-> "RotateRightThroughCarry", reg |-> "L"]]
      [] b1 = 31 -> [n |-> 2, instr |-> [i |-> "RotateRightThroughCarry", reg |-> "A"]]
      [] b1 = 32 -> [n |-> 2, instr |-> [i |-> "ShiftLeftIntoCarry", reg |-> "B"]]
      [] b1 = 33 -> [n |-> 2, instr |-> [i |-> "ShiftLeftIntoCarry", reg |-> "C"]]
      [] b1 = 34 -> [n |-> 2, instr |-> [i |-> "ShiftLeftIntoCarry", reg |-> "D"]]
      [] b1 = 35 -> [n |-> 2, instr |-> [i |-> "ShiftLeftIntoCarry", reg |-> "E"]]
      [] b1 = 36 -> [n |-> 2, instr |-> [i |-> "ShiftLeftIntoCarry", reg |-> "H"]]
      [] b1 = 37 -> [n |-> 2, instr |-> [i |-> "ShiftLeftIntoCarry", reg |-> "L"]]
      [] b1 = 39 -> [n |-> 2, instr |-> [i |-> "ShiftLeftIntoCarry", reg |-> "A"]]
      [] b1 = 40 -> [n |-> 2, instr |-> [i |-> "ShiftRightWithSignIntoCarry", reg |-> "B"]]
      [] b1 = 41 -> [n |-> 2, instr |-> [i |-> "ShiftRightWithSignIntoCarry", reg |-> "C"]]
      [] b1 = 42 -> [n |-> 2, instr |-> [i |-> "ShiftRightWithSignIntoCarry", reg |-> "D"]]
      [] b1 = 43 -> [n |-> 2, instr |-> [i |-> "ShiftRightWithSignIntoCarry", reg |-> "E"]]
      [] b1 = 44 -> [n |-> 2, instr |-> [i |-> "ShiftRightWithSignIntoCarry", reg |-> "H"]]
      [] b1 = 45 -> [n |-> 2, instr |-> [i |-> "ShiftRightWithSignIntoCarry", reg |-> "L"]]
      [] b1 = 47 -> [n |-> 2, instr |-> [i |-> "ShiftRightWithSignIntoCarry", reg |-> "A"]]
      [] b1 = 48 -> [n |-> 2, instr |-> [i |-> "SwapReg8", reg |-> "B"]]
      [] b1 = 49 -> [n |-> 2, instr |-> [i |-> "SwapReg8", reg |-> "C"]]
      [] b1 = 50 -> [n |-> 2, instr |-> [i |-> "SwapReg8", reg |-> "D"]]
      [] b1 = 51 -> [n |-> 2, instr |-> [i |-> "SwapReg8", reg |-> "E"]]
      [] b1 = 52 -> [n |-> 2, instr |-> [i |-> "SwapReg8", reg |-> "H"]]
      [] b1 = 53 -> [n |-> 2, instr |-> [i |-> "SwapReg8", reg |-> "L"]]
      [] b1 = 55 -> [n |-> 2, instr |-> [i |-> "SwapReg8", reg |-> "A"]]
      [] b1 = 56 -> [n |-> 2, instr |-> [i |-> "ShiftRightWithZeroIntoCarry", reg |-> "B"]]
      [] b1 = 57 -> [n |-> 2, instr |-> [i |-> "ShiftRightWithZeroIntoCarry", reg |-> "C"]]
      [] b1 = 58 -> [n |-> 2, instr |-> [i |-> "ShiftRightWithZeroIntoCarry", reg |-> "D"]]
      [] b1 = 59 -> [n |-> 2, instr |-> [i |-> "ShiftRightWithZeroIntoCarry", reg |-> "E"]]
      [] b1 = 60 -> [n |-> 2, instr |-> [i |-> "ShiftRightWithZeroIntoCarry", reg |-> "H"]]
      [] b1 = 61 -> [n |-> 2, instr |-> [i |-> "ShiftRightWithZeroIntoCarry", reg |-> "L"]]
      [] b1 = 63 -> [n |-> 2, instr |-> [i |-> "ShiftRightWithZeroIntoCarry", reg |-> "A"]]
      [] b1 \in 64..127 -> decode_bit_op("BitTest", b1)
      [] b1 \in 128..191 -> decode_bit_op("ResetBit", b1)
      [] b1 \in 192..255 -> decode_bit_op("SetBit", b1)
      [] OTHER -> Unknown

decode_main(b0, b1, b2) ==
    CASE b0 = 0 -> [n |-> 1, instr |-> [i |-> "NOP"]]
      [] b0 = 1 -> [n |-> 3, instr |-> [i |-> "LoadLiteralIntoReg16", reg |-> "BC", literal |-> U16(b2, b1)]]
      [] b0 = 2 -> [n |-> 1, instr |-> [i |-> "WriteReg8ValueAtIndirect", reg |-> "A", addr |-> "BC", post_op |-> "None"]]
      [] b0 = 3 -> [n |-> 1, instr |-> [i |-> "IncReg16", reg |-> "BC"]]
      [] b0 = 4 -> [n |-> 1, instr |-> [i |-> "IncReg8", reg |-> "B"]]
      [] b0 = 5 -> [n |-> 1, instr |-> [i |-> "DecReg8", reg |-> "B"]]
      [] b0 = 6 -> [n |-> 2, instr |-> [i |-> "LoadLiteralIntoReg8", reg |-> "B", literal |-> b1]]
      [] b0 = 7 -> [n |-> 1, instr |-> [i |-> "RotateLeftA"]]
      [] b0 = 8 -> [n |-> 3, instr |-> [i |-> "WriteReg16ValueAtAddress", addr |-> U16(b2, b1), reg |-> "SP"]]
      [] b0 = 9 -> [n |-> 1, instr |-> [i |-> "AddHLWithReg", reg |-> "BC"]]
      [] b0 = 10 -> [n |-> 1, instr |-> [i |-> "ReadIndirectToReg8", addr |-> "BC", reg |-> "A", post_op |-> "None"]]
      [] b0 = 11 -> [n |-> 1, instr |-> [i |-> "DecReg16", reg |-> "BC"]]
      [] b0 = 12 -> [n |-> 1, instr |-> [i |-> "IncReg8", reg |-> "C"]]
      [] b0 = 13 -> [n |-> 1, instr |-> [i |-> "DecReg8", reg |-> "C"]]
      [] b0 = 14 -> [n |-> 2, instr |-> [i |-> "LoadLiteralIntoReg8", reg |-> "C", literal |-> b1]]
      [] b0 = 15 -> [n |-> 1, instr |-> [i |-> "RotateRightA"]]
      [] b0 = 17 -> [n |-> 3, instr |-> [i |-> "LoadLiteralIntoReg16", reg |-> "DE", literal |-> U16(b2, b1)]]
      [] b0 = 18 -> [n |-> 1, instr |-> [i |-> "WriteReg8ValueAtIndirect", addr |-> "DE", reg |-> "A", post_op |-> "None"]]
      [] b0 = 19 -> [n |-> 1, instr |-> [i |-> "IncReg16", reg |-> "DE"]]
      [] b0 = 20 -> [n |-> 1, instr |-> [i |-> "IncReg8", reg |-> "D"]]
      [] b0 = 21 -> [n |-> 1, instr |-> [i |-> "DecReg8", reg |-> "D"]]
      [] b0 = 22 -> [n |-> 2, instr |-> [i |-> "LoadLiteralIntoReg8", reg |-> "D", literal |-> b1]]
      [] b0 = 23 -> [n |-> 1, instr |-> [i |-> "RotateLeftThroughCarryA"]]
      [] b0 = 24 -> [n |-> 2, instr |-> [i |-> "JumpRelative", condition |-> "None", offset |-> AsI8(b1)]]
      [] b0 = 25 -> [n |-> 1, instr |-> [i |-> "AddHLWithReg", reg |-> "DE"]]
      [] b0 = 26 -> [n |-> 1, instr |-> [i |-> "ReadIndirectToReg8", addr |-> "DE", reg |-> "A", post_op |-> "None"]]
      [] b0 = 27 -> [n |-> 1, instr |-> [i |-> "DecReg16", reg |-> "DE"]]
      [] b0 = 28 -> [n |-> 1, instr |-> [i |-> "IncReg8", reg |-> "E"]]
      [] b0 = 29 -> [n |-> 1, instr |-> [i |-> "DecReg8", reg |-> "E"]]
      [] b0 = 30 -> [n |-> 2, instr |-> [i |-> "LoadLiteralIntoReg8", reg |-> "E", literal |-> b1]]
      [] b0 = 31 -> [n |-> 1, instr |-> [i |-> "RotateRightThroughCarryA"]]
      [] b0 = 32 -> [n |-> 2, instr |-> [i |-> "JumpRelative", condition |-> "NonZero", offset |-> AsI8(b1)]]
      [] b0 = 33 -> [n |-> 3, instr |-> [i |-> "LoadLiteralIntoReg16", reg |-> "HL", literal |-> U16(b2, b1)]]
      [] b0 = 34 -> [n |-> 1, instr |-> [i |-> "WriteReg8ValueAtIndirect", addr |-> "HL", reg |-> "A", post_op |-> "Inc"]]
      [] b0 = 35 -> [n |-> 1, instr |-> [i |-> "IncReg16", reg |-> "HL"]]
      [] b0 = 36 -> [n |-> 1, instr |-> [i |-> "IncReg8", reg |-> "H"]]
      [] b0 = 37 -> [n |-> 1, instr |-> [i |-> "DecReg8", reg |-> "H"]]
      [] b0 = 38 -> [n |-> 2, instr |-> [i |-> "LoadLiteralIntoReg8", reg |-> "H", literal |-> b1]]
      [] b0 = 39 -> [n |-> 1, instr |-> [i |-> "DAA"]]
      [] b0 = 40 -> [n |-> 2, instr |-> [i |-> "JumpRelative", condition |-> "Zero", offset |-> AsI8(b1)]]
      [] b0 = 41 -> [n |-> 1, instr |-> [i |-> "AddHLWithReg", reg |-> "HL"]]
      [] b0 = 42 -> [n |-> 1, instr |-> [i |-> "ReadIndirectToReg8", reg |-> "A", addr |-> "HL", post_op |-> "Inc"]]
      [] b0 = 43 -> [n |-> 1, instr |-> [i |-> "DecReg16", reg |-> "HL"]]
      [] b0 = 44 -> [n |-> 1, instr |-> [i |-> "IncReg8", reg |-> "L"]]
      [] b0 = 45 -> [n |-> 1, instr |-> [i |-> "DecReg8", reg |-> "L"]]
      [] b0 = 46 -> [n |-> 2, instr |-> [i |-> "LoadLiteralIntoReg8", reg |-> "L", literal |-> b1]]
      [] b0 = 47 -> [n |-> 1, instr |-> [i |-> "ComplementA"]]
      [] b0 = 48 -> [n |-> 2, instr |-> [i |-> "JumpRelative", condition |-> "NonCarry", offset |-> AsI8(b1)]]
      [] b0 = 49 -> [n |-> 3, instr |-> [i |-> "LoadLiteralIntoReg16", reg |-> "SP", literal |-> U16(b2, b1)]]
      [] b0 = 50 -> [n |-> 1, instr |-> [i |-> "WriteReg8ValueAtIndirect", addr |-> "HL", reg |-> "A", post_op |-> "Dec"]]
      [] b0 = 51 -> [n |-> 1, instr |-> [i |-> "IncReg16", reg |-> "SP"]]
      [] b0 = 52 -> [n |-> 1, instr |-> [i |-> "IncIndirect", addr |-> "HL"]]
      [] b0 = 53 -> [n |-> 1, instr |-> [i |-> "DecIndirect", addr |-> "HL"]]
      [] b0 = 54 -> [n |-> 2, instr |-> [i |-> "WriteLiteralAtIndirect", addr |-> "HL", literal |-> b1]]
      [] b0 = 55 -> [n |-> 1, instr |-> [i |-> "SetCarryFlag"]]
      [] b0 = 56 -> [n |-> 2, instr |-> [i |-> "JumpRelative", condition |-> "Carry", offset |-> AsI8(b1)]]
      [] b0 = 57 -> [n |-> 1, instr |-> [i |-> "AddHLWithReg", reg |-> "SP"]]
      [] b0 = 58 -> [n |-> 1, instr |-> [i |-> "ReadIndirectToReg8", addr |-> "HL", reg |-> "A", post_op |-> "Dec"]]
      [] b0 = 59 -> [n |-> 1, instr |-> [i |-> "DecReg16", reg |-> "SP"]]
      [] b0 = 60 -> [n |-> 1, instr |-> [i |-> "IncReg8", reg |-> "A"]]
      [] b0 = 61 -> [n |-> 1, instr |-> [i |-> "DecReg8", reg |-> "A"]]
      [] b0 = 62 -> [n |-> 2, instr |-> [i |-> "LoadLiteralIntoReg8", reg |-> "A", literal |-> b1]]
      [] b0 = 63 -> [n |-> 1, instr |-> [i |-> "ComplementCarryFlag"]]
      [] b0 = 64 -> [n |-> 1, instr |-> [i |-> "Move", dest |-> "B", src |-> "B"]]
      [] b0 = 65 -> [n |-> 1, instr |-> [i |-> "Move", dest |-> "B", src |-> "C"]]
      [] b0 = 66 -> [n |-> 1, instr |-> [i |-> "Move", dest |-> "B", src |-> "D"]]
      [] b0 = 67 -> [n |-> 1, instr |-> [i |-> "Move", dest |-> "B", src |-> "E"]]
      [] b0 = 68 -> [n |-> 1, instr |-> [i |-> "Move", dest |-> "B", src |-> "H"]]
      [] b0 = 69 -> [n |-> 1, instr |-> [i |-> "Move", dest |-> "B", src |-> "L"]]
      [] b0 = 70 -> [n |-> 1, instr |-> [i |-> "ReadIndirectToReg8", reg |-> "B", addr |-> "HL", post_op |-> "None"]]
      [] b0 = 71 -> [n |-> 1, instr |-> [i |-> "Move", dest |-> "B", src |-> "A"]]
      [] b0 = 72 -> [n |-> 1, instr |-> [i |-> "Move", dest |-> "C", src |-> "B"]]
      [] b0 = 73 -> [n |-> 1, instr |-> [i |-> "Move", dest |-> "C", src |-> "C"]]
      [] b0 = 74 -> [n |-> 1, instr |-> [i |-> "Move", dest |-> "C", src |-> "D"]]
      [] b0 = 75 -> [n |-> 1, instr |-> [i |-> "Move", dest |-> "C", src |-> "E"]]
      [] b0 = 76 -> [n |-> 1, instr |-> [i |-> "Move", dest |-> "C", src |-> "H"]]
      [] b0 = 77 -> [n |-> 1, instr |-> [i |-> "Move", dest |-> "C", src |-> "L"]]
      [] b0 = 78 -> [n |-> 1, instr |-> [i |-> "ReadIndirectToReg8", reg |-> "C", addr |-> "HL", post_op |-> "None"]]
      [] b0 = 79 -> [n |-> 1, instr |-> [i |-> "Move", dest |-> "C", src |-> "A"]]
      [] b0 = 80 -> [n |-> 1, instr |-> [i |-> "Move", dest |-> "D", src |-> "B"]]
      [] b0 = 81 -> [n |-> 1, instr |-> [i |-> "Move", dest |-> "D", src |-> "C"]]
      [] b0 = 82 -> [n |-> 1, instr |-> [i |-> "Move", dest |-> "D", src |-> "D"]]
      [] b0 = 83 -> [n |-> 1, instr |-> [i |-> "Move", dest |-> "D", src |-> "E"]]
      [] b0 = 84 -> [n |-> 1, instr |-> [i |-> "Move", dest |-> "D", src |-> "H"]]
      [] b0 = 85 -> [n |-> 1, instr |-> [i |-> "Move", dest |-> "D", src |-> "L"]]
      [] b0 = 86 -> [n |-> 1, instr |-> [i |-> "ReadIndirectToReg8", reg |-> "D", addr |-> "HL", post_op |-> "None"]]
      [] b0 = 87 -> [n |-> 1, instr |-> [i |-> "Move", dest |-> "D", src |-> "A"]]
      [] b0 = 88 -> [n |-> 1, instr |-> [i |-> "Move", dest |-> "E", src |-> "B"]]
      [] b0 = 89 -> [n |-> 1, instr |-> [i |-> "Move", dest |-> "E", src |-> "C"]]
      [] b0 = 90 -> [n |-> 1, instr |-> [i |-> "Move", dest |-> "E", src |-> "D"]]
      [] b0 = 91 -> [n |-> 1, instr |-> [i |-> "Move", dest |-> "E", src |-> "E"]]
      [] b0 = 92 -> [n |-> 1, instr |-> [i |-> "Move", dest |-> "E", src |-> "H"]]
      [] b0 = 93 -> [n |-> 1, instr |-> [i |-> "Move", dest |-> "E", src |-> "L"]]
      [] b0 = 94 -> [n |-> 1, instr |-> [i |-> "ReadIndirectToReg8", reg |-> "E", addr |-> "HL", post_op |-> "None"]]
      [] b0 = 95 -> [n |-> 1, instr |-> [i |-> "Move", dest |-> "E", src |-> "A"]]
      [] b0 = 96 -> [n |-> 1, instr |-> [i |-> "Move", dest |-> "H", src |-> "B"]]
      [] b0 = 97 -> [n |-> 1, instr |-> [i |-> "Move", dest |-> "H", src |-> "C"]]
      [] b0 = 98 -> [n |-> 1, instr |-> [i |-> "Move", dest |-> "H", src |-> "D"]]
      [] b0 = 99 -> [n |-> 1, instr |-> [i |-> "Move", dest |-> "H", src |-> "E"]]
      [] b0 = 100 -> [n |-> 1, instr |-> [i |-> "Move", dest |-> "H", src |-> "H"]]
      [] b0 = 101 -> [n |-> 1, instr |-> [i |-> "Move", dest |-> "H", src |-> "L"]]
      [] b0 = 102 -> [n |-> 1, instr |-> [i |-> "ReadIndirectToReg8", addr |-> "HL", reg |-> "H", post_op |-> "None"]]
      [] b0 = 103 -> [n |-> 1, instr |-> [i |-> "Move", dest |-> "H", src |-> "A"]]
      [] b0 = 104 -> [n |-> 1, instr |-> [i |-> "Move", dest |-> "L", src |-> "B"]]
      [] b0 = 105 -> [n |-> 1, instr |-> [i |-> "Move", dest |-> "L", src |-> "C"]]
      [] b0 = 106 -> [n |-> 1, instr |-> [i |-> "Move", dest |-> "L", src |-> "D"]]
      [] b0 = 107 -> [n |-> 1, instr |-> [i |-> "Move", dest |-> "L", src |-> "E"]]
      [] b0 = 108 -> [n |-> 1, instr |-> [i |-> "Move", dest |-> "L", src |-> "H"]]
      [] b0 = 109 -> [n |-> 1, instr |-> [i |-> "Move", dest |-> "L", src |-> "L"]]
      [] b0 = 110 -> [n |-> 1, instr |-> [i |-> "ReadIndirectToReg8", addr |-> "HL", reg |-> "L", post_op |-> "None"]]
      [] b0 = 111 -> [n |-> 1, instr |-> [i |-> "Move", dest |-> "L", src |-> "A"]]
      [] b0 = 112 -> [n |-> 1, instr |-> [i |-> "WriteReg8ValueAtIndirect", addr |-> "HL", reg |-> "B", post_op |-> "None"]]
      [] b0 = 113 -> [n |-> 1, instr |-> [i |-> "WriteReg8ValueAtIndirect", addr |-> "HL", reg |-> "C", post_op |-> "None"]]
      [] b0 = 114 -> [n |-> 1, instr |-> [i |-> "WriteReg8ValueAtIndirect", addr |-> "HL", reg |-> "D", post_op |-> "None"]]
      [] b0 = 115 -> [n |-> 1, instr |-> [i |-> "WriteReg8ValueAtIndirect", addr |-> "HL", reg |-> "E", post_op |-> "None"]]
      [] b0 = 116 -> [n |-> 1, instr |-> [i |-> "WriteReg8ValueAtIndirect", addr |-> "HL", reg |-> "H", post_op |-> "None"]]
      [] b0 = 117 -> [n |-> 1, instr |-> [i |-> "WriteReg8ValueAtIndirect", addr |-> "HL", reg |-> "L", post_op |-> "None"]]
      [] b0 = 119 -> [n |-> 1, instr |-> [i |-> "WriteReg8ValueAtIndirect", addr |-> "HL", reg |-> "A", post_op |-> "None"]]
      [] b0 = 120 -> [n |-> 1, instr |-> [i |-> "Move", dest |-> "A", src |-> "B"]]
      [] b0 = 121 -> [n |-> 1, instr |-> [i |-> "Move", dest |-> "A", src |-> "C"]]
      [] b0 = 122 -> [n |-> 1, instr |-> [i |-> "Move", dest |-> "A", src |-> "D"]]
      [] b0 = 123 -> [n |-> 1, instr |-> [i |-> "Move", dest |-> "A", src |-> "E"]]
      [] b0 = 124 -> [n |-> 1, instr |-> [i |-> "Move", dest |-> "A", src |-> "H"]]
      [] b0 = 125 -> [n |-> 1, instr |-> [i |-> "Move", dest |-> "A", src |-> "L"]]
      [] b0 = 126 -> [n |-> 1, instr |-> [i |-> "ReadIndirectToReg8", reg |-> "A", addr |-> "HL", post_op |-> "None"]]
      [] b0 = 127 -> [n |-> 1, instr |-> [i |-> "Move", dest |-> "A", src |-> "A"]]
      [] b0 = 128 -> [n |-> 1, instr |-> [i |-> "AddAWithReg8", reg |-> "B"]]
      [] b0 = 129 -> [n |-> 1, instr |-> [i |-> "AddAWithReg8", reg |-> "C"]]
      [] b0 = 130 -> [n |-> 1, instr |-> [i |-> "AddAWithReg8", reg |-> "D"]]
      [] b0 = 131 -> [n |-> 1, instr |-> [i |-> "AddAWithReg8", reg |-> "E"]]
      [] b0 = 132 -> [n |-> 1, instr |-> [i |-> "AddAWithReg8", reg |-> "H"]]
      [] b0 = 133 -> [n |-> 1, instr |-> [i |-> "AddAWithReg8", reg |-> "L"]]
      [] b0 = 134 -> [n |-> 1, instr |-> [i |-> "AddAWithIndirect", addr |-> "HL"]]
      [] b0 = 135 -> [n |-> 1, instr |-> [i |-> "AddAWithReg8", reg |-> "A"]]
      [] b0 = 136 -> [n |-> 1, instr |-> [i |-> "AdcAWithReg8", reg |-> "B"]]
      [] b0 = 137 -> [n |-> 1, instr |-> [i |-> "AdcAWithReg8", reg |-> "C"]]
      [] b0 = 138 -> [n |-> 1, instr |-> [i |-> "AdcAWithReg8", reg |-> "D"]]
      [] b0 = 139 -> [n |-> 1, instr |-> [i |-> "AdcAWithReg8", reg |-> "E"]]
      [] b0 = 140 -> [n |-> 1, instr |-> [i |-> "AdcAWithReg8", reg |-> "H"]]
      [] b0 = 141 -> [n |-> 1, instr |-> [i |-> "AdcAWithReg8", reg |-> "L"]]
      [] b0 = 142 -> [n |-> 1, instr |-> [i |-> "AdcAWithIndirect", addr |-> "HL"]]
      [] b0 = 143 -> [n |-> 1, instr |-> [i |-> "AdcAWithReg8", reg |-> "A"]]
      [] b0 = 144 -> [n |-> 1, instr |-> [i |-> "SubAWithReg8", reg |-> "B"]]
      [] b0 = 145 -> [n |-> 1, instr |-> [i |-> "SubAWithReg8", reg |-> "C"]]
      [] b0 = 146 -> [n |-> 1, instr |-> [i |-> "SubAWithReg8", reg |-> "D"]]
      [] b0 = 147 -> [n |-> 1, instr |-> [i |-> "SubAWithReg8", reg |-> "E"]]
      [] b0 = 148 -> [n |-> 1, instr |-> [i |-> "SubAWithReg8", reg |-> "H"]]
      [] b0 = 149 -> [n |-> 1, instr |-> [i |-> "SubAWithReg8", reg |-> "L"]]
      [] b0 = 150 -> [n |-> 1, instr |-> [i |-> "SubAWithIndirect", addr |-> "HL"]]
      [] b0 = 151 -> [n |-> 1, instr |-> [i |-> "SubAWithReg8", reg |-> "A"]]
      [] b0 = 152 -> [n |-> 1, instr |-> [i |-> "SbcAWithReg8", reg |-> "B"]]
      [] b0 = 153 -> [n |-> 1, instr |-> [i |-> "SbcAWithReg8", reg |-> "C"]]
      [] b0 = 154 -> [n |-> 1, instr |-> [i |-> "SbcAWithReg8", reg |-> "D"]]
      [] b0 = 155 -> [n |-> 1, instr |-> [i |-> "SbcAWithReg8", reg |-> "E"]]
      [] b0 = 156 -> [n |-> 1, instr |-> [i |-> "SbcAWithReg8", reg |-> "H"]]
      [] b0 = 157 -> [n |-> 1, instr |-> [i |-> "SbcAWithReg8", reg |-> "L"]]
      [] b0 = 158 -> [n |-> 1, instr |-> [i |-> "SbcAWithIndirect", addr |-> "HL"]]
      [] b0 = 159 -> [n |-> 1, instr |-> [i |-> "SbcAWithReg8", reg |-> "A"]]
      [] b0 = 160 -> [n |-> 1, instr |-> [i |-> "AndAWithReg8", reg |-> "B"]]
      [] b0 = 161 -> [n |-> 1, instr |-> [i |-> "AndAWithReg8", reg |-> "C"]]
      [] b0 = 162 -> [n |-> 1, instr |-> [i |-> "AndAWithReg8", reg |-> "D"]]
      [] b0 = 163 -> [n |-> 1, instr |-> [i |-> "AndAWithReg8", reg |-> "E"]]
      [] b0 = 164 -> [n |-> 1, instr |-> [i |-> "AndAWithReg8", reg |-> "H"]]
      [] b0 = 165 -> [n |-> 1, instr |-> [i |-> "AndAWithReg8", reg |-> "L"]]
      [] b0 = 166 -> [n |-> 1, instr |-> [i |-> "AndAWithIndirect", addr |-> "HL"]]
      [] b0 = 167 -> [n |-> 1, instr |-> [i |-> "AndAWithReg8", reg |-> "A"]]
      [] b0 = 168 -> [n |-> 1, instr |-> [i |-> "XorAWithReg8", reg |-> "B"]]
      [] b0 = 169 -> [n |-> 1, instr |-> [i |-> "XorAWithReg8", reg |-> "C"]]
      [] b0 = 170 -> [n |-> 1, instr |-> [i |-> "XorAWithReg8", reg |-> "D"]]
      [] b0 = 171 -> [n |-> 1, instr |-> [i |-> "XorAWithReg8", reg |-> "E"]]
      [] b0 = 172 -> [n |-> 1, instr |-> [i |-> "XorAWithReg8", reg |-> "H"]]
      [] b0 = 173 -> [n |-> 1, instr |-> [i |-> "XorAWithReg8", reg |-> "L"]]
      [] b0 = 174 -> [n |-> 1, instr |-> [i |-> "XorAWithIndirect", addr |-> "HL"]]
      [] b0 = 175 -> [n |-> 1, instr |-> [i |-> "XorAWithReg8", reg |-> "A"]]
      [] b0 = 176 -> [n |-> 1, instr |-> [i |-> "OrAWithReg8", reg |-> "B"]]
      [] b0 = 177 -> [n |-> 1, instr |-> [i |-> "OrAWithReg8", reg |-> "C"]]
      [] b0 = 178 -> [n |-> 1, instr |-> [i |-> "OrAWithReg8", reg |-> "D"]]
      [] b0 = 179 -> [n |-> 1, instr |-> [i |-> "OrAWithReg8", reg |-> "E"]]
      [] b0 = 180 -> [n |-> 1, instr |-> [i |-> "OrAWithReg8", reg |-> "H"]]
      [] b0 = 181 -> [n |-> 1, instr |-> [i |-> "OrAWithReg8", reg |-> "L"]]
      [] b0 = 182 -> [n |-> 1, instr |-> [i |-> "OrAWithIndirect", addr |-> "HL"]]
      [] b0 = 183 -> [n |-> 1, instr |-> [i |-> "OrAWithReg8", reg |-> "A"]]
      [] b0 = 184 -> [n |-> 1, instr |-> [i |-> "CompareAWithReg", reg |-> "B"]]
      [] b0 = 185 -> [n |-> 1, instr |-> [i |-> "CompareAWithReg", reg |-> "C"]]
      [] b0 = 186 -> [n |-> 1, instr |-> [i |-> "CompareAWithReg", reg |-> "D"]]
      [] b0 = 187 -> [n |-> 1, instr |-> [i |-> "CompareAWithReg", reg |-> "E"]]
      [] b0 = 188 -> [n |-> 1, instr |-> [i |-> "CompareAWithReg", reg |-> "H"]]
      [] b0 = 189 -> [n |-> 1, instr |-> [i |-> "CompareAWithReg", reg |-> "L"]]
      [] b0 = 190 -> [n |-> 1, instr |-> [i |-> "CompareAWithIndirect", addr |-> "HL"]]
      [] b0 = 191 -> [n |-> 1, instr |-> [i |-> "CompareAWithReg", reg |-> "A"]]
      [] b0 = 192 -> [n |-> 1, instr |-> [i |-> "Return", condition |-> "NonZero"]]
      [] b0 = 193 -> [n |-> 1, instr |-> [i |-> "PopReg16", reg |-> "BC"]]
      [] b0 = 194 -> [n |-> 3, instr |-> [i |-> "JumpAbsolute", condition |-> "NonZero", addr |-> U16(b2, b1)]]
      [] b0 = 195 -> [n |-> 3, instr |-> [i |-> "JumpAbsolute", condition |-> "None", addr |-> U16(b2, b1)]]
      [] b0 = 196 -> [n |-> 3, instr |-> [i |-> "CallAddr", condition |-> "NonZero", addr |-> U16(b2, b1)]]
      [] b0 = 197 -> [n |-> 1, instr |-> [i |-> "PushReg16", reg |-> "BC"]]
      [] b0 = 198 -> [n |-> 2, instr |-> [i |-> "AddAWithLiteral", literal |-> b1]]
      [] b0 = 199 -> [n |-> 1, instr |-> [i |-> "Reset", offset |-> 0]]
      [] b0 = 200 -> [n |-> 1, instr |-> [i |-> "Return", condition |-> "Zero"]]
      [] b0 = 201 -> [n |-> 1, instr |-> [i |-> "Return", condition |-> "None"]]
      [] b0 = 202 -> [n |-> 3, instr |-> [i |-> "JumpAbsolute", condition |-> "Zero", addr |-> U16(b2, b1)]]
      [] b0 = 204 -> [n |-> 3, instr |-> [i |-> "CallAddr", condition |-> "Zero", addr |-> U16(b2, b1)]]
      [] b0 = 205 -> [n |-> 3, instr |-> [i |-> "CallAddr", condition |-> "None", addr |-> U16(b2, b1)]]
      [] b0 = 206 -> [n |-> 2, instr |-> [i |-> "AdcAWithLiteral", literal |-> b1]]
      [] b0 = 207 -> [n |-> 1, instr |-> [i |-> "Reset", offset |-> 8]]
      [] b0 = 208 -> [n |-> 1, instr |-> [i |-> "Return", condition |-> "NonCarry"]]
      [] b0 = 209 -> [n |-> 1, instr |-> [i |-> "PopReg16", reg |-> "DE"]]
      [] b0 = 210 -> [n |-> 3, instr |-> [i |-> "JumpAbsolute", condition |-> "NonCarry", addr |-> U16(b2, b1)]]
      [] b0 = 212 -> [n |-> 3, instr |-> [i |-> "CallAddr", condition |-> "NonCarry", addr |-> U16(b2, b1)]]
      [] b0 = 213 -> [n |-> 1, instr |-> [i |-> "PushReg16", reg |-> "DE"]]
      [] b0 = 214 -> [n |-> 2, instr |-> [i |-> "SubAWithLiteral", literal |-> b1]]
      [] b0 = 215 -> [n |-> 1, instr |-> [i |-> "Reset", offset |-> 16]]
      [] b0 = 216 -> [n |-> 1, instr |-> [i |-> "Return", condition |-> "Carry"]]
      [] b0 = 217 -> [n |-> 1, instr |-> [i |-> "ReturnInterrupt"]]
      [] b0 = 218 -> [n |-> 3, instr |-> [i |-> "JumpAbsolute", condition |-> "Carry", addr |-> U16(b2, b1)]]
      [] b0 = 220 -> [n |-> 3, instr |-> [i |-> "CallAddr", condition |-> "Carry", addr |-> U16(b2, b1)]]
      [] b0 = 222 -> [n |-> 2, instr |-> [i |-> "SbcAWithLiteral", literal |-> b1]]
      [] b0 = 223 -> [n |-> 1, instr |-> [i |-> "Reset", offset |-> 24]]
      [] b0 = 224 -> [n |-> 2, instr |-> [i |-> "WriteReg8ValueAtZeroPageOffsetLiteral", lit_offset |-> b1, reg |-> "A"]]
      [] b0 = 225 -> [n |-> 1, instr |-> [i |-> "PopReg16", reg |-> "HL"]]
      [] b0 = 226 -> [n |-> 1, instr |-> [i |-> "WriteReg8ValueAtZeroPageOffsetReg8", reg_offset |-> "C", reg |-> "A"]]
      [] b0 = 229 -> [n |-> 1, instr |-> [i |-> "PushReg16", reg |-> "HL"]]
      [] b0 = 230 -> [n |-> 2, instr |-> [i |-> "AndAWithLiteral", literal |-> b1]]
      [] b0 = 231 -> [n |-> 1, instr |-> [i |-> "Reset", offset |-> 32]]
      [] b0 = 232 -> [n |-> 2, instr |-> [i |-> "AddOffsetToReg16", reg |-> "SP", offset |-> AsI8(b1)]]
      [] b0 = 233 -> [n |-> 1, instr |-> [i |-> "JumpRegister16", reg |-> "HL"]]
      [] b0 = 234 -> [n |-> 3, instr |-> [i |-> "WriteReg8ValueAtAddress", addr |-> U16(b2, b1), reg |-> "A"]]
      [] b0 = 238 -> [n |-> 2, instr |-> [i |-> "XorAWithLiteral", literal |-> b1]]
      [] b0 = 239 -> [n |-> 1, instr |-> [i |-> "Reset", offset |-> 40]]
      [] b0 = 240 -> [n |-> 2, instr |-> [i |-> "ReadZeroPageOffsetLiteralToReg8", reg |-> "A", lit_offset |-> b1]]
      [] b0 = 241 -> [n |-> 1, instr |-> [i |-> "PopReg16", reg |-> "AF"]]
      [] b0 = 242 -> [n |-> 1, instr |-> [i |-> "ReadZeroPageOffsetReg8ToReg8", offset |-> "C", reg |-> "A"]]
      [] b0 = 243 -> [n |-> 1, instr |-> [i |-> "DisableInterrupts"]]
      [] b0 = 245 -> [n |-> 1, instr |-> [i |-> "PushReg16", reg |-> "AF"]]
      [] b0 = 246 -> [n |-> 2, instr |-> [i |-> "OrAWithLiteral", literal |-> b1]]
      [] b0 = 247 -> [n |-> 1, instr |-> [i |-> "Reset", offset |-> 48]]
      [] b0 = 248 -> [n |-> 2, instr |-> [i |-> "LoadAddressOffsetIntoReg16", dest |-> "HL", base |-> "SP", offset |-> AsI8(b1)]]
      [] b0 = 249 -> [n |-> 1, instr |-> [i |-> "Move16Bits", dest |-> "SP", src |-> "HL"]]
      [] b0 = 250 -> [n |-> 3, instr |-> [i |-> "ReadAtAddressToReg8", addr |-> U16(b2, b1), reg |-> "A"]]
      [] b0 = 251 -> [n |-> 1, instr |-> [i |-> "EnableInterrupts"]]
      [] b0 = 254 -> [n |-> 2, instr |-> [i |-> "CompareAWithLiteral", literal |-> b1]]
      [] b0 = 255 -> [n |-> 1, instr |-> [i |-> "Reset", offset |-> 56]]
      [] OTHER -> Unknown

decode_instruction(b0, b1, b2) ==
    IF b0 = 203 THEN decode_prefix_cb(b1) ELSE decode_main(b0, b1, b2)

-----------------------------------------------------------------------------
(* Micro-operations: src/src/cpu/micro_op.rs *)

\* Source8bits, Destination8Bits and Reg8OrIndirect values: the variant and its payload
Operand(k, v) == [k |-> k, v |-> v]

NOP == [op |-> "NOP"]
Move8Bits(destination, source) ==
    [op |-> "Move8Bits", destination |-> destination, source |-> source]
WriteMem(addr, reg, pre_op, post_op) ==
    [op |-> "WriteMem", addr |-> addr, reg |-> reg, pre_op |-> pre_op, post_op |-> post_op]
ReadMem(reg, addr, post_op) ==
    [op |-> "ReadMem", reg |-> reg, addr |-> addr, post_op |-> post_op]
LoadReg16Lit(reg, literal) == [op |-> "LoadReg16Lit", reg |-> reg, literal |-> literal]
AddOffsetToReg16IntoReg16(dest, rhs, offset, update_flags) ==
    [op |-> "AddOffsetToReg16IntoReg16", dest |-> dest, rhs |-> rhs, offset |-> offset,
     update_flags |-> update_flags]
CheckFlags(condition, true_ops, false_ops) ==
    [op |-> "CheckFlags", condition |-> condition, true_ops |-> true_ops,
     false_ops |-> false_ops]
\* the micro-ops on a Reg8OrIndirect: bit tests, increments, rotates and shifts
\* (bit and set_zero are meaningful for those that have the field)
OperandOp(name, reg, bit, set_zero) ==
    [op |-> name, reg |-> reg, bit |-> bit, set_zero |-> set_zero]

\* micro_op::simpl
load_literal_into_reg8(literal, reg) == Move8Bits(Operand("Register", reg), Operand("Literal", literal))
move_micro_op(dest, src) == Move8Bits(Operand("Register", dest), Operand("Register", src))
jump_relative(offset) == AddOffsetToReg16IntoReg16("PC", "PC", offset, FALSE)

-----------------------------------------------------------------------------
(* Instruction::to_micro_ops: src/src/cpu/instruction.rs                    *)
(* Split by instruction family; to_micro_ops below joins the parts.         *)

\* the accumulator operations: And, Or, Xor, Add, Adc, Sub, Sbc, Compare
AluMicroOp(i) ==
    CASE i \in {"AndAWithReg8", "AndAWithLiteral", "AndAWithIndirect"} -> "AndA"
      [] i \in {"OrAWithReg8", "OrAWithLiteral", "OrAWithIndirect"} -> "OrA"
      [] i \in {"XorAWithReg8", "XorAWithLiteral", "XorAWithIndirect"} -> "XorA"
      [] i \in {"AddAWithReg8", "AddAWithLiteral", "AddAWithIndirect"} -> "AddA"
      [] i \in {"AdcAWithReg8", "AdcAWithLiteral", "AdcAWithIndirect"} -> "AdcA"
      [] i \in {"SubAWithReg8", "SubAWithLiteral", "SubAWithIndirect"} -> "SubA"
      [] i \in {"SbcAWithReg8", "SbcAWithLiteral", "SbcAWithIndirect"} -> "SbcA"
      [] i \in {"CompareAWithReg", "CompareAWithLiteral", "CompareAWithIndirect"} -> "CompareA"
      [] OTHER -> "None"

to_micro_ops_alu(instr) ==
    LET name == AluMicroOp(instr.i)
    IN CASE name = "None" -> <<>>
         [] "reg" \in DOMAIN instr -> <<[op |-> name, rhs |-> Operand("Register", instr.reg)]>>
         [] "literal" \in DOMAIN instr -> <<NOP, [op |-> name, rhs |-> Operand("Literal", instr.literal)]>>
         [] OTHER -> <<NOP, [op |-> name, rhs |-> Operand("Indirect", instr.addr)]>>

to_micro_ops_load(instr) ==
    LET i == instr.i
    IN CASE i = "NOP" -> <<NOP>>
         [] i = "Move" -> <<move_micro_op(instr.dest, instr.src)>>
         [] i = "Move16Bits" ->
              <<NOP, [op |-> "Move16Bits", destination |-> instr.dest, source |-> instr.src]>>
         [] i = "LoadLiteralIntoReg8" -> <<NOP, load_literal_into_reg8(instr.literal, instr.reg)>>
         [] i = "LoadLiteralIntoReg16" ->
              <<NOP,
                load_literal_into_reg8(instr.literal % 256, lower_half(instr.reg)),
                load_literal_into_reg8(instr.literal \div 256, higher_half(instr.reg))>>
         [] i = "LoadAddressOffsetIntoReg16" ->
              <<NOP, NOP, AddOffsetToReg16IntoReg16(instr.dest, instr.base, instr.offset, TRUE)>>
         [] i = "AddHLWithReg" -> <<NOP, [op |-> "AddHL", rhs |-> instr.reg]>>
         [] i = "AddOffsetToReg16" ->
              <<NOP, NOP, NOP,
                AddOffsetToReg16IntoReg16(instr.reg, instr.reg, instr.offset, TRUE)>>
         [] i = "DAA" -> <<[op |-> "DAA"]>>
         [] i = "ComplementA" -> <<[op |-> "ComplementA"]>>
         [] i = "WriteReg8ValueAtAddress" ->
              <<NOP, NOP, NOP, Move8Bits(Operand("Address", instr.addr), Operand("Register", instr.reg))>>
         [] i = "WriteReg16ValueAtAddress" ->
              <<NOP, NOP, NOP,
                Move8Bits(Operand("Address", instr.addr), Operand("Register", lower_half(instr.reg))),
                Move8Bits(Operand("Address", U16v(instr.addr + 1)), Operand("Register", higher_half(instr.reg)))>>
         [] i = "WriteLiteralAtIndirect" ->
              <<NOP, NOP, Move8Bits(Operand("Indirect", instr.addr), Operand("Literal", instr.literal))>>
         [] i = "WriteReg8ValueAtIndirect" ->
              <<NOP, WriteMem(instr.addr, instr.reg, "None", instr.post_op)>>
         [] i = "WriteReg8ValueAtZeroPageOffsetReg8" ->
              <<NOP, [op |-> "WriteMemZeroPage", reg_offset |-> instr.reg_offset,
                      reg |-> instr.reg]>>
         [] i = "WriteReg8ValueAtZeroPageOffsetLiteral" ->
              <<NOP, NOP, Move8Bits(Operand("Address", 65280 + instr.lit_offset), Operand("Register", instr.reg))>>
         [] i = "ReadZeroPageOffsetLiteralToReg8" ->
              <<NOP, NOP, Move8Bits(Operand("Register", instr.reg), Operand("Address", 65280 + instr.lit_offset))>>
         [] i = "ReadZeroPageOffsetReg8ToReg8" ->
              <<NOP, Move8Bits(Operand("Register", instr.reg), Operand("ZeroPageOffsetReg8", instr.offset))>>
         [] i = "ReadAtAddressToReg8" ->
              <<NOP, Move8Bits(Operand("Register", instr.reg), Operand("Address", instr.addr))>>
         [] i = "ReadIndirectToReg8" -> <<NOP, ReadMem(instr.reg, instr.addr, instr.post_op)>>
         [] OTHER -> <<>>

PushPC_low_first == <<WriteMem("SP", "PCLow", "Dec", "None"), WriteMem("SP", "PCHigh", "Dec", "None")>>
PushPC == <<WriteMem("SP", "PCHigh", "Dec", "None"), WriteMem("SP", "PCLow", "Dec", "None")>>
PopPC == <<ReadMem("PCLow", "SP", "Inc"), ReadMem("PCHigh", "SP", "Inc")>>

JumpAbsolute_false_ops_empty == <<>>
JumpAbsolute_false_ops == <<NOP>>

CallAddr_unconditional_two_nops(addr) == <<NOP, NOP>> \o PushPC \o <<LoadReg16Lit("PC", addr)>>
CallAddr_unconditional(addr) == <<NOP, NOP, NOP>> \o PushPC \o <<LoadReg16Lit("PC", addr)>>

to_micro_ops_flow(instr) ==
    LET i == instr.i
    IN CASE i = "PushReg16" ->
              <<NOP, NOP, WriteMem("SP", higher_half(instr.reg), "Dec", "None"),
                WriteMem("SP", lower_half(instr.reg), "Dec", "None")>>
         [] i = "PopReg16" ->
              <<NOP, ReadMem(lower_half(instr.reg), "SP", "Inc"),
                ReadMem(higher_half(instr.reg), "SP", "Inc")>>
         [] i = "CallAddr" ->
              IF instr.condition # "None"
              THEN <<NOP, NOP,
                     CheckFlags(instr.condition,
                                PushPC \o <<LoadReg16Lit("PC", instr.addr)>>, <<>>)>>
              ELSE CallAddr_unconditional(instr.addr)
         [] i = "Return" ->
              IF instr.condition # "None"
              THEN <<NOP, CheckFlags(instr.condition, <<NOP>> \o PopPC, <<>>)>>
              ELSE <<NOP, NOP>> \o PopPC
         [] i = "ReturnInterrupt" -> <<NOP>> \o PopPC \o <<[op |-> "EnableInterrupts"]>>
         [] i = "JumpRelative" ->
              IF instr.condition # "None"
              THEN <<NOP, CheckFlags(instr.condition, <<jump_relative(instr.offset)>>, <<>>)>>
              ELSE <<NOP, jump_relative(instr.offset)>>
         [] i = "JumpAbsolute" ->
              IF instr.condition # "None"
              THEN <<NOP,
                     CheckFlags(instr.condition,
                                <<load_literal_into_reg8(instr.addr % 256, "PCLow"),
                                  load_literal_into_reg8(instr.addr \div 256, "PCHigh")>>,
                                JumpAbsolute_false_ops)>>
              ELSE <<NOP, NOP, load_literal_into_reg8(instr.addr % 256, "PCLow"),
                     load_literal_into_reg8(instr.addr \div 256, "PCHigh")>>
         [] i = "JumpRegister16" ->
              <<[op |-> "Move16Bits", destination |-> "PC", source |-> instr.reg]>>
         [] i = "Reset" -> <<NOP>> \o PushPC \o <<LoadReg16Lit("PC", instr.offset)>>
         [] i \in {"SetCarryFlag", "ComplementCarryFlag", "EnableInterrupts",
                   "DisableInterrupts"} -> <<[op |-> i]>>
         [] OTHER -> <<>>

to_micro_ops_bits(instr) ==
    LET i == instr.i
        reg8 == Operand("Reg8", instr.reg)
        hl == Operand("Indirect", instr.addr)
        a == Operand("Reg8", "A")
    IN CASE i \in {"BitTest", "ResetBit", "SetBit"} -> <<NOP, OperandOp(i, reg8, instr.bit, FALSE)>>
         [] i \in {"IncReg16", "DecReg16"} -> <<NOP, [op |-> i, reg |-> instr.reg]>>
         [] i = "IncReg8" -> <<OperandOp("Inc", reg8, 0, FALSE)>>
         [] i = "DecReg8" -> <<OperandOp("Dec", reg8, 0, FALSE)>>
         [] i = "IncIndirect" -> <<NOP, NOP, OperandOp("Inc", hl, 0, FALSE)>>
         [] i = "DecIndirect" -> <<NOP, NOP, OperandOp("Dec", hl, 0, FALSE)>>
         [] i = "RotateLeftThroughCarryA" -> <<OperandOp("RotateLeftThroughCarry", a, 0, FALSE)>>
         [] i = "RotateRightThroughCarryA" -> <<OperandOp("RotateRightThroughCarry", a, 0, FALSE)>>
         [] i = "RotateLeftA" -> <<OperandOp("RotateLeft", a, 0, FALSE)>>
         [] i = "RotateRightA" -> <<OperandOp("RotateRight", a, 0, FALSE)>>
         [] i \in {"RotateLeftThroughCarry", "RotateRightThroughCarry", "RotateLeft",
                   "RotateRight", "ShiftLeftIntoCarry", "ShiftRightWithZeroIntoCarry",
                   "ShiftRightWithSignIntoCarry", "SwapReg8"} ->
              <<NOP, OperandOp(i, reg8, 0, TRUE)>>
         [] OTHER -> <<>>

\* Instruction::to_micro_ops, for the instructions decode_instruction produces
to_micro_ops(instr) ==
    to_micro_ops_load(instr) \o to_micro_ops_alu(instr) \o to_micro_ops_flow(instr)
    \o to_micro_ops_bits(instr)

-----------------------------------------------------------------------------
(* CPU::step, one micro-op at a time: src/src/cpu/mod.rs                    *)
(* A micro-op reads at most one byte of memory; ReadAddr gives its address  *)
(* (or NoAddr) and d stands for the byte read_memory returned.              *)

NoAddr == 0 - 1

contains(flags, flag) == (flags \div flag) % 2 = 1
FlagIf(cond, flag) == IF cond THEN flag ELSE 0

update_flags_arith(res, negative, carry, half_carry) ==
    FlagIf(res = 0, ZERO) + FlagIf(negative, NEGATIVE) + FlagIf(carry, CARRY)
    + FlagIf(half_carry, HALF_CARRY)

check_half_carry(a, b) == ((a % 16) + (b % 16)) \div 16 = 1
check_half_carry_16bits_high(a, b) == ((a % 4096) + (b % 4096)) \div 4096 = 1
check_half_carry_16bits_mid(a, b) == ((a % 256) + (b % 256)) \div 256 = 1
check_half_carry_16bits_low(a, b) == check_half_carry(a % 256, b % 256)
check_half_carry_sub(a, b) == check_half_carry(a, U8(U8(255 - b) + 1))
check_half_carry_sub_16bits_low(a, b) == check_half_carry_sub(a % 256, b % 256)
check_half_carry_sub_16bits_mid(a, b) ==
    check_half_carry_16bits_mid(a, U16v(U16v(65535 - b) + 1))

run_pre_post_op(c, reg16, op) ==
    CASE op = "Dec" -> store_reg16(c, reg16, U16v(load_reg16(c, reg16) + 65535))
      [] op = "Inc" -> store_reg16(c, reg16, U16v(load_reg16(c, reg16) + 1))
      [] OTHER -> c

\* the address source_8bits_to_value reads, if it reads memory
SourceAddr(c, src) ==
    CASE src.k = "Indirect" -> load_reg16(c, src.v)
      [] src.k = "Address" -> src.v
      [] src.k = "ZeroPageOffsetReg8" -> 65280 + load_reg8(c, src.v)
      [] OTHER -> NoAddr

source_8bits_to_value(c, src, d) ==
    CASE src.k = "Register" -> load_reg8(c, src.v)
      [] src.k = "Literal" -> src.v
      [] OTHER -> d

ReadAddr(c, op) ==
    CASE op.op \in {"Move8Bits"} -> SourceAddr(c, op.source)
      [] op.op \in {"AndA", "OrA", "XorA", "AddA", "AdcA", "SubA", "SbcA", "CompareA"} ->
            SourceAddr(c, op.rhs)
      [] op.op = "ReadMem" -> load_reg16(c, op.addr)
      [] op.op \in {"Inc", "Dec", "BitTest", "ResetBit", "SetBit", "RotateLeftThroughCarry",
                    "RotateRightThroughCarry", "RotateLeft", "RotateRight",
                    "ShiftLeftIntoCarry", "ShiftRightWithZeroIntoCarry",
                    "ShiftRightWithSignIntoCarry", "SwapReg8"} ->
            IF op.reg.k = "Indirect" THEN load_reg16(c, op.reg.v) ELSE NoAddr
      [] OTHER -> NoAddr

\* what one micro-op does: the new registers, the bytes it writes to memory,
\* the micro-ops it pushes on the front of the pipeline, and whether it aborts
Result(c, writes) == [cpu |-> c, writes |-> writes, prepend |-> <<>>, panic |-> FALSE]
Abort(c) == [cpu |-> c, writes |-> <<>>, prepend |-> <<>>, panic |-> TRUE]
MemWrite(addr, value) == <<[addr |-> addr, value |-> value]>>
SetFlags(c, flags) == [c EXCEPT !.flags = flags]

\* the value of a Reg8OrIndirect operand, and storing to it and then setting the flags
operand_value(c, r, d) == IF r.k = "Reg8" THEN load_reg8(c, r.v) ELSE d
store_operand(c, r, value, flags) ==
    IF r.k = "Reg8"
    THEN Result(SetFlags(store_reg8(c, r.v, value), flags), <<>>)
    ELSE Result(SetFlags(c, flags), MemWrite(load_reg16(c, r.v), value))

sub_a(c, b, use_carry, apply_res) ==
    LET cy == IF use_carry /\ contains(c.flags, CARRY) THEN 1 ELSE 0
        a == c.reg_a
        res == U8(U8(a + 256 - b) + 256 - cy)
        flags == update_flags_arith(res, TRUE, a < b + cy, (a % 16) < (b % 16) + cy)
        c1 == SetFlags(c, flags)
    IN IF apply_res THEN [c1 EXCEPT !.reg_a = res] ELSE c1

AdcA(c, rhs_value) ==
    LET a_value == c.reg_a
        res0 == U8(a_value + rhs_value)
        carry0 == a_value + rhs_value > 255
        half0 == check_half_carry(a_value, rhs_value)
        cin == contains(c.flags, CARRY)
        res == IF cin THEN U8(res0 + 1) ELSE res0
        carry == carry0 \/ (cin /\ res0 + 1 > 255)
        half_carry == half0 \/ (cin /\ check_half_carry(res0, 1))
    IN [SetFlags(c, update_flags_arith(res, FALSE, carry, half_carry)) EXCEPT !.reg_a = res]

\* DAA works on a u32 copy of A; a subtraction below zero is an overflow, which a
\* build with overflow checks aborts on and any other build wraps modulo 2^32.
\* Only bits 0..8 of the result are used, so the wrap is computed modulo 2^9.
DAA(c, dbg) ==
    LET a0 == c.reg_a
        n == contains(c.flags, NEGATIVE)
        h == contains(c.flags, HALF_CARRY)
        cy == contains(c.flags, CARRY)
        add1 == IF h \/ (a0 % 16) > 9 THEN a0 + 6 ELSE a0
        add2 == IF cy \/ add1 > 159 THEN add1 + 96 ELSE add1
        under1 == h /\ a0 < 6
        sub1 == IF h THEN (a0 + 256 - 6) % 256 ELSE a0
        under2 == cy /\ sub1 < 96
        sub2 == IF cy THEN (sub1 + 512 - 96) % 512 ELSE sub1
        a == IF n THEN sub2 ELSE add2
        kept == c.flags - FlagIf(h, HALF_CARRY) - FlagIf(contains(c.flags, ZERO), ZERO)
        f1 == IF (a \div 256) % 2 = 1 /\ ~contains(kept, CARRY) THEN kept + CARRY ELSE kept
        f2 == IF a % 256 = 0 THEN f1 + ZERO ELSE f1
    IN IF dbg /\ n /\ (under1 \/ under2) THEN Abort(c)
       ELSE Result([SetFlags(c, f2) EXCEPT !.reg_a = a % 256], <<>>)

\* -offset overflows for offset = -128: aborts with overflow checks, else stays -128,
\* whose conversion to u16 is 0xFF80
AddOffsetToReg16IntoReg16_exec(c, op, dbg) ==
    LET value == load_reg16(c, op.rhs)
        neg_offset == IF op.offset = 0 - 128 THEN 65408 ELSE 0 - op.offset
        res == IF op.offset < 0 THEN U16v(value + 65536 - neg_offset)
               ELSE U16v(value + op.offset)
        carry == IF op.offset < 0 THEN check_half_carry_sub_16bits_mid(value, neg_offset)
                 ELSE check_half_carry_16bits_mid(value, op.offset)
        half_carry == IF op.offset < 0 THEN check_half_carry_sub_16bits_low(value, neg_offset)
                      ELSE check_half_carry_16bits_low(value, op.offset)
        c1 == store_reg16(c, op.dest, res)
    IN IF dbg /\ op.offset = 0 - 128 THEN Abort(c)
       ELSE IF op.update_flags
            THEN Result(SetFlags(c1, FlagIf(carry, CARRY) + FlagIf(half_carry, HALF_CARRY)), <<>>)
            ELSE Result(c1, <<>>)

Move8Bits_exec(c, op, d) ==
    LET value == source_8bits_to_value(c, op.source, d)
        dst == op.destination
    IN CASE dst.k = "Register" -> Result(store_reg8(c, dst.v, value), <<>>)
         [] dst.k = "Indirect" -> Result(c, MemWrite(load_reg16(c, dst.v), value))
         [] dst.k = "Address" -> Result(c, MemWrite(dst.v, value))

AluA_exec(c, op, d) ==
    LET rhs == source_8bits_to_value(c, op.rhs, d)
        and_a == BitAnd(c.reg_a, rhs)
        or_a == BitOr(c.reg_a, rhs)
        xor_a == BitXor(c.reg_a, rhs)
        sum == c.reg_a + rhs
    IN CASE op.op = "AndA" ->
              [c EXCEPT !.reg_a = and_a, !.flags = HALF_CARRY + FlagIf(and_a = 0, ZERO)]
         [] op.op = "OrA" -> [c EXCEPT !.reg_a = or_a, !.flags = FlagIf(or_a = 0, ZERO)]
         [] op.op = "XorA" -> [c EXCEPT !.reg_a = xor_a, !.flags = FlagIf(xor_a = 0, ZERO)]
         [] op.op = "AddA" ->
              [c EXCEPT !.reg_a = U8(sum),
                        !.flags = update_flags_arith(U8(sum), FALSE, sum > 255,
                                                     check_half_carry(c.reg_a, rhs))]
         [] op.op = "AdcA" -> AdcA(c, rhs)
         [] op.op = "SubA" -> sub_a(c, rhs, FALSE, TRUE)
         [] op.op = "SbcA" -> sub_a(c, rhs, TRUE, TRUE)
         [] op.op = "CompareA" -> sub_a(c, rhs, FALSE, FALSE)

AddHL_exec(c, op) ==
    LET hl_value == load_reg16(c, "HL")
        rhs_value == load_reg16(c, op.rhs)
        res == U16v(hl_value + rhs_value)
        carry == hl_value + rhs_value > 65535
        half_carry == check_half_carry_16bits_high(hl_value, rhs_value)
        c1 == store_reg16(c, "HL", res)
    IN SetFlags(c1, FlagIf(contains(c1.flags, ZERO), ZERO) + FlagIf(half_carry, HALF_CARRY)
                    + FlagIf(carry, CARRY))

WriteMem_exec(c, op) ==
    LET c1 == run_pre_post_op(c, op.addr, op.pre_op)
        addr_value == load_reg16(c1, op.addr)
    IN Result(run_pre_post_op(c1, op.addr, op.post_op),
              MemWrite(addr_value, load_reg8(c1, op.reg)))

ReadMem_exec(c, op, d) ==
    run_pre_post_op(store_reg8(c, op.reg, d), op.addr, op.post_op)

CheckFlags_exec(c, op) ==
    LET cond_true ==
            CASE op.condition = "NonZero" -> ~contains(c.flags, ZERO)
              [] op.condition = "Zero" -> contains(c.flags, ZERO)
              [] op.condition = "NonCarry" -> ~contains(c.flags, CARRY)
              [] op.condition = "Carry" -> contains(c.flags, CARRY)
    IN [cpu |-> c, writes |-> <<>>,
        prepend |-> IF cond_true THEN op.true_ops ELSE op.false_ops, panic |-> FALSE]

\* IncReg / IncIndirect and DecReg / DecIndirect
IncDec_exec(c, op, d) ==
    LET value == operand_value(c, op.reg, d)
        carry == contains(c.flags, CARRY)
        inc == U8(value + 1)
        dec == U8(value + 255)
    IN IF op.op = "Inc"
       THEN store_operand(c, op.reg, inc,
                          update_flags_arith(inc, FALSE, carry, check_half_carry(value, 1)))
       ELSE store_operand(c, op.reg, dec,
                          update_flags_arith(dec, TRUE, carry, check_half_carry_sub(value, 1)))

BitTest_exec_dropping_carry(c, op, d) ==
    LET is_set == Bit(operand_value(c, op.reg, d), op.bit) = 1
    IN SetFlags(c, IF is_set THEN HALF_CARRY ELSE ZERO + HALF_CARRY)
BitTest_exec(c, op, d) ==
    LET is_set == Bit(operand_value(c, op.reg, d), op.bit) = 1
        rest == HALF_CARRY + FlagIf(contains(c.flags, CARRY), CARRY)
    IN SetFlags(c, IF is_set THEN rest ELSE ZERO + rest)

\* RotateLeftThroughCarry, RotateRightThroughCarry, ShiftRightIntoCarry, SwapReg8
Rotate_exec(c, op, d) ==
    LET value == operand_value(c, op.reg, d)
        cin == IF contains(c.flags, CARRY) THEN 1 ELSE 0
        rl == U8(value * 2) + cin
        rr == cin * 128 + value \div 2
        srl == value \div 2
        swap == (value % 16) * 16 + value \div 16
    IN CASE op.op = "RotateLeftThroughCarry" ->
              store_operand(c, op.reg, rl,
                            FlagIf(value \div 128 = 1, CARRY) + FlagIf(op.set_zero /\ rl = 0, ZERO))
         [] op.op = "RotateRightThroughCarry" ->
              store_operand(c, op.reg, rr,
                            FlagIf(value % 2 = 1, CARRY) + FlagIf(op.set_zero /\ rr = 0, ZERO))
         [] op.op = "ShiftRightWithZeroIntoCarry" ->
              store_operand(c, op.reg, srl, FlagIf(value % 2 = 1, CARRY) + FlagIf(srl = 0, ZERO))
         [] op.op = "SwapReg8" -> store_operand(c, op.reg, swap, FlagIf(swap = 0, ZERO))

ComplementCarryFlag_exec(c) ==
    LET kept == FlagIf(contains(c.flags, ZERO), ZERO)
    IN SetFlags(c, kept + FlagIf(~contains(c.flags, CARRY), CARRY))

\* The micro-ops of micro_op.rs that step() has no arm for, with the behaviour the
\* specification gives them (RLC/RRC, SLA, SRA, RES, SET).
Missing_exec(c, op, d) ==
    LET value == operand_value(c, op.reg, d)
        rlc == U8(value * 2) + value \div 128
        rrc == (value % 2) * 128 + value \div 2
        sla == U8(value * 2)
        sra == (value \div 128) * 128 + value \div 2
    IN CASE op.op = "RotateLeft" ->
              store_operand(c, op.reg, rlc,
                            FlagIf(value \div 128 = 1, CARRY) + FlagIf(op.set_zero /\ rlc = 0, ZERO))
         [] op.op = "RotateRight" ->
              store_operand(c, op.reg, rrc,
                            FlagIf(value % 2 = 1, CARRY) + FlagIf(op.set_zero /\ rrc = 0, ZERO))
         [] op.op = "ShiftLeftIntoCarry" ->
              store_operand(c, op.reg, sla, FlagIf(value \div 128 = 1, CARRY) + FlagIf(sla = 0, ZERO))
         [] op.op = "ShiftRightWithSignIntoCarry" ->
              store_operand(c, op.reg, sra, FlagIf(value % 2 = 1, CARRY) + FlagIf(sra = 0, ZERO))
         [] op.op = "ResetBit" ->
              store_operand(c, op.reg, value - Bit(value, op.bit) * (2 ^ op.bit), c.flags)
         [] op.op = "SetBit" ->
              store_operand(c, op.reg, value + (1 - Bit(value, op.bit)) * (2 ^ op.bit), c.flags)

\* the match of step() on the micro-op popped from the pipeline
ExecMicroOp(c, op, d, dbg) ==
    LET o == op.op
    IN CASE o \in {"NOP", "EnableInterrupts", "DisableInterrupts"} -> Result(c, <<>>)
         [] o = "Move8Bits" -> Move8Bits_exec(c, op, d)
         [] o = "Move16Bits" ->
              Result(store_reg16(c, op.destination, load_reg16(c, op.source)), <<>>)
         [] o = "LoadReg16Lit" -> Result(store_reg16(c, op.reg, op.literal), <<>>)
         [] o \in {"AndA", "OrA", "XorA", "AddA", "AdcA", "SubA", "SbcA", "CompareA"} ->
              Result(AluA_exec(c, op, d), <<>>)
         [] o = "AddHL" -> Result(AddHL_exec(c, op), <<>>)
         [] o = "DAA" -> DAA(c, dbg)
         [] o = "ComplementA" ->
              Result([c EXCEPT !.reg_a = BitNot8(c.reg_a),
                               !.flags = BitOr(c.flags, NEGATIVE + HALF_CARRY)], <<>>)
         [] o = "WriteMem" -> WriteMem_exec(c, op)
         [] o = "WriteMemZeroPage" ->
              Result(c, MemWrite(65280 + load_reg8(c, op.reg_offset), load_reg8(c, op.reg)))
         [] o = "ReadMem" -> Result(ReadMem_exec(c, op, d), <<>>)
         [] o = "BitTest" -> Result(BitTest_exec(c, op, d), <<>>)
         [] o = "CheckFlags" -> CheckFlags_exec(c, op)
         [] o = "AddOffsetToReg16IntoReg16" -> AddOffsetToReg16IntoReg16_exec(c, op, dbg)
         [] o = "IncReg16" -> Result(store_reg16(c, op.reg, U16v(load_reg16(c, op.reg) + 1)), <<>>)
         [] o = "DecReg16" ->
              Result(store_reg16(c, op.reg, U16v(load_reg16(c, op.reg) + 65535)), <<>>)
         [] o \in {"Inc", "Dec"} -> IncDec_exec(c, op, d)
         [] o \in {"RotateLeftThroughCarry", "RotateRightThroughCarry",
                   "ShiftRightWithZeroIntoCarry", "SwapReg8"} -> Rotate_exec(c, op, d)
         [] o = "SetCarryFlag" ->
              Result(SetFlags(c, FlagIf(contains(c.flags, ZERO), ZERO) + CARRY), <<>>)
         [] o = "ComplementCarryFlag" -> Result(ComplementCarryFlag_exec(c), <<>>)
         [] OTHER -> Missing_exec(c, op, d)

-----------------------------------------------------------------------------
(* The CPU specification: CPU::step over a generic Memory                   *)

\* bounds and input sets
MaxInstr == 2
AllOpcodes == 0..255
\* opcodes offered to the fetches after the first: NOP, JR e, POP AF
FollowOpcodes == {0, 24, 241}
OperandBytes == {0, 128, 255}
DataBytes == {0, 255}

Regs(a, f, b, c, d, e, h, l, sp, pc) ==
    [reg_a |-> a, flags |-> f, reg_b |-> b, reg_c |-> c, reg_d |-> d, reg_e |-> e,
     reg_h |-> h, reg_l |-> l, sp |-> sp, pc |-> pc]

\* CPU::new, and register files a program reaches by loads and POP AF
NewCPU == Regs(0, 0, 0, 0, 0, 0, 0, 0, 0, 0)
InitRegs ==
    { NewCPU,
      Regs(1, 176, 0, 19, 0, 216, 1, 77, 65534, 256),
      Regs(5, 112, 255, 255, 128, 0, 255, 255, 1, 256),
      Regs(0, 128, 0, 0, 0, 0, 255, 254, 65535, 65534) }

ObsInit ==
    [instr_count |-> 0,    \* instructions fetched so far
     fetch_pc |-> 0,       \* PC at the last fetch
     len |-> 0,            \* bytes the decoder consumed for it
     opcode |-> 0,         \* its opcode byte
     operand |-> 0,        \* its 16-bit operand (bytes 2 and 3)
     flags_at_fetch |-> 0,
     steps |-> 0,          \* step() calls spent on it so far
     ran |-> 0,            \* micro-ops executed by the last step() call
     len_before |-> 0,     \* pipeline length when the last step() popped
     prepended |-> 0,      \* micro-ops the last step() pushed on the front
     jumped |-> FALSE,     \* a micro-op of it stored into PC
     last_op |-> "None",   \* the last micro-op executed
     flags_in |-> 0]       \* the byte the last micro-op stored to F, before truncation

\* the byte read_memory(addr) returns: the byte stored there, else any byte of
\* `fresh` (the cartridge and RAM contents are an input)
ByteAt(mem, addr, fresh) == IF addr \in DOMAIN mem THEN {mem[addr]} ELSE fresh

remember(mem, addr, value) ==
    [a \in DOMAIN mem \cup {addr} |-> IF a = addr THEN value ELSE mem[a]]

RECURSIVE apply_writes(_, _)
apply_writes(mem, writes) ==
    IF writes = <<>> THEN mem
    ELSE apply_writes(remember(mem, Head(writes).addr, Head(writes).value), Tail(writes))

\* the micro-ops that store into PC
WritesPC(op) ==
    CASE op.op = "Move8Bits" ->
            op.destination.k = "Register" /\ op.destination.v \in {"PCLow", "PCHigh"}
      [] op.op = "Move16Bits" -> op.destination = "PC"
      [] op.op = "LoadReg16Lit" -> op.reg = "PC"
      [] op.op = "ReadMem" -> op.reg \in {"PCLow", "PCHigh"}
      [] op.op = "AddOffsetToReg16IntoReg16" -> op.dest = "PC"
      [] OTHER -> FALSE

\* the byte a micro-op hands to store_reg8(Flags, _), or 0 if it does not
StoredToFlags(c, op, d) ==
    CASE op.op = "ReadMem" /\ op.reg = "Flags" -> d
      [] op.op = "Move8Bits" /\ op.destination.k = "Register" /\ op.destination.v = "Flags" ->
            source_8bits_to_value(c, op.source, d)
      [] OTHER -> 0

\* PC after n calls of fetch_and_advance (`self.pc += 1`, wrapping where the build
\* does not check overflow)
advance_pc_stuck(pc, n) == pc
advance_pc(pc, n) == U16v(pc + n)

\* fetch_and_decode then pipeline.extend(to_micro_ops), when the pipeline is empty
Refill(c, pipe, mem, b0, b1, b2, dbg) ==
    IF pipe # <<>>
    THEN [cpu |-> c, pipeline |-> pipe, memory |-> mem, panic |-> FALSE, fetched |-> FALSE,
          len |-> 0]
    ELSE LET dec == decode_instruction(b0, b1, b2)
             bytes == <<b0, b1, b2>>
             mem1 == [a \in DOMAIN mem \cup {U16v(c.pc + k) : k \in 0..(dec.n - 1)} |->
                        IF \E k \in 0..(dec.n - 1) : a = U16v(c.pc + k)
                        THEN bytes[(CHOOSE k \in 0..(dec.n - 1) : a = U16v(c.pc + k)) + 1]
                        ELSE mem[a]]
             overflow == (c.pc + dec.n > 65535)
                         \/ (dec.instr.i = "WriteReg16ValueAtAddress" /\ dec.instr.addr = 65535)
         IN [cpu |-> [c EXCEPT !.pc = advance_pc(c.pc, dec.n)],
             pipeline |-> IF dec.instr.i = "Panic" THEN <<>> ELSE to_micro_ops(dec.instr),
             memory |-> mem1,
             panic |-> dec.instr.i = "Panic" \/ (dbg /\ overflow),
             fetched |-> TRUE, len |-> dec.n]

\* how many micro-ops one step() call pops and executes: `if let Some(micro_op) =
\* self.pipeline.pop_front()`
micro_ops_per_step_draining(pipe) == Len(pipe)
micro_ops_per_step(pipe) == IF pipe # <<>> THEN 1 ELSE 0

\* pop the front micro-op and execute it
RunOne(s, d, dbg) ==
    LET op == Head(s.pipeline)
        ra == ReadAddr(s.cpu, op)
        r == ExecMicroOp(s.cpu, op, d, dbg)
        mem1 == IF ra = NoAddr THEN s.memory ELSE remember(s.memory, ra, d)
    IN IF r.panic THEN [s EXCEPT !.panic = TRUE]
       ELSE [cpu |-> r.cpu, pipeline |-> r.prepend \o Tail(s.pipeline),
             memory |-> apply_writes(mem1, r.writes), panic |-> FALSE,
             ran |-> s.ran + 1, prepended |-> s.prepended + Len(r.prepend),
             jumped |-> s.jumped \/ WritesPC(op), last_op |-> op.op,
             flags_in |-> StoredToFlags(s.cpu, op, d)]

RECURSIVE RunOps(_, _, _, _)
RunOps(s, k, d, dbg) ==
    IF k = 0 \/ s.panic \/ s.pipeline = <<>> THEN s
    ELSE RunOps(RunOne(s, d, dbg), k - 1, d, dbg)

\* CPU::step, over the CPU's own variables; the bytes the program holds where
\* the CPU fetches for the first time are drawn from the sets given
CPU_step_over(first, follow, operands) ==
    /\ ~cpu_panicked
    /\ pipeline = <<>> => obs.instr_count < MaxInstr
    /\ LET fetching == pipeline = <<>>
           opcodes == IF obs.instr_count = 0 THEN first ELSE follow
           pick(k, fresh) == IF fetching THEN ByteAt(memory, U16v(cpu.pc + k), fresh) ELSE {0}
           \* only the bytes the decoder fetches are inputs
           need(b0, k) == fetching /\ decode_instruction(b0, 0, 0).n > k
       IN \E b0 \in pick(0, opcodes) :
          \E b1 \in (IF need(b0, 1) THEN pick(1, operands) ELSE {0}) :
          \E b2 \in (IF need(b0, 2) THEN pick(2, operands) ELSE {0}) :
          \E f \in {Refill(cpu, pipeline, memory, b0, b1, b2, debug_assertions)} :
            LET ra == IF f.pipeline = <<>> THEN NoAddr ELSE ReadAddr(f.cpu, Head(f.pipeline))
                o1 == IF f.fetched
                      THEN [obs EXCEPT !.instr_count = @ + 1, !.fetch_pc = cpu.pc,
                                       !.len = f.len, !.opcode = b0,
                                       !.operand = U16(b2, b1),
                                       !.flags_at_fetch = cpu.flags, !.steps = 0,
                                       !.jumped = FALSE]
                      ELSE obs
            IN \E d \in (IF ra = NoAddr THEN {0} ELSE ByteAt(f.memory, ra, DataBytes)) :
                 LET s0 == [cpu |-> f.cpu, pipeline |-> f.pipeline, memory |-> f.memory,
                            panic |-> f.panic, ran |-> 0, prepended |-> 0,
                            jumped |-> o1.jumped, last_op |-> "None", flags_in |-> 0]
                 IN \E s \in {RunOps(s0, micro_ops_per_step(f.pipeline), d, debug_assertions)} :
                    IF s.panic
                    THEN /\ cpu_panicked' = TRUE
                         /\ obs' = [o1 EXCEPT !.ran = 0, !.last_op = "None"]
                         /\ UNCHANGED <<cpu, pipeline, memory>>
                    ELSE /\ cpu' = s.cpu
                         /\ pipeline' = s.pipeline
                         /\ memory' = s.memory
                         /\ cpu_panicked' = FALSE
                         /\ obs' = [o1 EXCEPT !.steps = @ + 1, !.ran = s.ran,
                                              !.len_before = Len(f.pipeline),
                                              !.prepended = s.prepended,
                                              !.jumped = s.jumped, !.last_op = s.last_op,
                                              !.flags_in = s.flags_in]

CPU_step == CPU_step_over(AllOpcodes, FollowOpcodes, OperandBytes)

\* CPU::step called on its own
step ==
    /\ CPU_step
    /\ UNCHANGED <<debug_assertions, hostVars, irq, mmuVars, ppuVars>>

\* CPU::step over programs made of BIT b,r instructions (CB 40 .. CB 7F)
BitTestOpcodes == 64..127
\* BIT 0,A and BIT 7,A for the instructions after the first
FollowBitTests == {71, 127}
step_bit_test ==
    /\ CPU_step_over({203}, {203},
                     IF obs.instr_count = 0 THEN BitTestOpcodes ELSE FollowBitTests)
    /\ UNCHANGED <<debug_assertions, hostVars, irq, mmuVars, ppuVars>>

\* CPU::step over programs made of ADD SP,e (E8) and LD HL,SP+e (F8)
OffsetOpcodes == {232, 248}
OffsetBytes == {0, 1, 2, 8, 127, 128, 129, 240, 248, 255}
FollowOffsetBytes == {1, 255}
step_add_offset ==
    /\ CPU_step_over(OffsetOpcodes, OffsetOpcodes,
                     IF obs.instr_count = 0 THEN OffsetBytes ELSE FollowOffsetBytes)
    /\ UNCHANGED <<debug_assertions, hostVars, irq, mmuVars, ppuVars>>

-----------------------------------------------------------------------------
(* The MMU: src/backend/src/memory/mod.rs, with the cartridge controllers   *)
(* (src/backend/src/memory/mbc1.rs, src/src/memory/simple.rs) and the OAM   *)
(* DMA countdown (src/backend/src/memory/dma.rs).                           *)
(* Arrays are kept sparse: a cell that is absent holds 0, as the arrays are *)
(* zero-filled at construction.  A read that aborts yields Aborted.         *)

Aborted == 0 - 1
Get(f, k) == IF k \in DOMAIN f THEN f[k] ELSE 0
Put(f, k, v) ==
    [x \in (DOMAIN f \cup {k}) \ (IF v = 0 THEN {k} ELSE {}) |-> IF x = k THEN v ELSE f[x]]

\* the cartridge image and the boot ROM image are inputs; these are the ones used
RomByte(i) == 64 + (i \div 16384) * 16 + (i % 13)
bootstrap_rom(i) == 49 + (i % 16)

BANK_SIZE == 16384

\* Simple::new and MBC1::new, as read_cartridge calls them
SimpleMBC == [kind |-> "Simple", bank_count |-> 2, bank_index |-> 1, ram_index |-> 0,
              ram_enabled |-> FALSE, ram_size |-> 0, ram |-> <<>>]
MBC1(bank_count, ram_size) ==
    [kind |-> "MBC1", bank_count |-> bank_count, bank_index |-> 1, ram_index |-> 0,
     ram_enabled |-> FALSE, ram_size |-> ram_size, ram |-> <<>>]

\* MBC1::new of src/src/memory/mbc1.rs: the same controller, whose bank select
\* arm masks the written value with 0x20 (bank_mask records which arm applies)
MBC1_0x20(bank_count, ram_size) ==
    [kind |-> "MBC1", bank_count |-> bank_count, bank_index |-> 1, ram_index |-> 0,
     ram_enabled |-> FALSE, ram_size |-> ram_size, ram |-> <<>>, bank_mask |-> 32]

\* MBC1::write_memory, arm 0x2000..=0x3FFF: the bank index a written value selects
select_bank_index_unadjusted(value, bank_count) == (value % 32) % bank_count
select_bank_index(value, bank_count) ==
    LET bank_index == (value % 32) % bank_count
    IN IF bank_index % 16 = 0 THEN bank_index + 1 ELSE bank_index

\* the same arm in src/src/memory/mbc1.rs: let value = value & 0x20
select_bank_index_0x20(value, bank_count) ==
    LET bank_index == (Bit(value, 5) * 32) % bank_count
    IN IF bank_index % 16 = 0 THEN bank_index + 1 ELSE bank_index

\* MBC1::read_memory, arm 0x4000..=0x7FFF: the index into the ROM image
switchable_rom_index(mbc, addr) == mbc.bank_index * BANK_SIZE + (addr - 16384)

\* MBC::read_memory for Simple and MBC1
mbc_read_memory(mbc, addr) ==
    IF mbc.kind = "Simple"
    THEN IF addr \in 256..32767 THEN RomByte(addr) ELSE 255
    ELSE CASE addr \in 0..16383 -> RomByte(addr)
           [] addr \in 16384..32767 ->
                LET i == switchable_rom_index(mbc, addr)
                IN IF i < mbc.bank_count * BANK_SIZE THEN RomByte(i) ELSE Aborted
           [] addr \in 40960..49151 ->
                LET i == mbc.ram_index * BANK_SIZE + (addr - 40960)
                IN IF ~mbc.ram_enabled THEN 255
                   ELSE IF i < mbc.ram_size THEN Get(mbc.ram, i) ELSE Aborted
           [] OTHER -> Aborted

\* MBC::write_memory for Simple and MBC1: the controller afterwards, and whether
\* the write aborted (unimplemented!, index out of bounds, panic!)
mbc_write_memory(mbc, addr, value) ==
    LET ok(next) == [mbc |-> next, abort |-> FALSE]
        abort == [mbc |-> mbc, abort |-> TRUE]
        i == mbc.ram_index * BANK_SIZE + (addr - 40960)
    IN IF mbc.kind = "Simple" THEN ok(mbc)
       ELSE CASE addr \in 0..8191 -> ok([mbc EXCEPT !.ram_enabled = (value = 10)])
              [] addr \in 8192..16383 ->
                   ok([mbc EXCEPT !.bank_index =
                           IF "bank_mask" \in DOMAIN mbc
                           THEN select_bank_index_0x20(value, mbc.bank_count)
                           ELSE select_bank_index(value, mbc.bank_count)])
              [] addr \in 16384..24575 -> ok([mbc EXCEPT !.ram_index = value % 4])
              [] addr \in 24576..32767 -> IF value # 0 THEN abort ELSE ok(mbc)
              [] addr \in 40960..49151 ->
                   IF ~mbc.ram_enabled THEN ok(mbc)
                   ELSE IF i < mbc.ram_size THEN ok([mbc EXCEPT !.ram = Put(@, i, value)])
                   ELSE abort
              [] OTHER -> abort

\* InterruptController::new (src/src/interrupt.rs).  cgb_mode, requested_new_mode
\* and ppu_mode are fields the MMU and the PPU use that the constructor of this
\* snapshot lacks; vblank_log is an observation: where in the frame each call of
\* trigger_vblank_int was made.
NewInterruptController(cgb_mode) ==
    [master_enable |-> FALSE, interrupt_enable |-> 0, interrupt_flag |-> 224,
     divider_register |-> 0, divider_counter |-> 0, timer_counter |-> 0, timer_modulo |-> 0,
     timer_sub_counter |-> 0, timer_control |-> 0,
     should_redraw |-> FALSE, new_int_waiting |-> FALSE,
     keys_state |-> {}, select_buttons |-> FALSE, select_directions |-> FALSE,
     cgb_mode |-> cgb_mode, requested_new_mode |-> "None", ppu_mode |-> "None",
     vblank_log |-> <<>>]

\* InterruptController::read_joypad_reg
read_joypad_reg(ic) ==
    LET key(k, bit) == IF k \in ic.keys_state THEN bit ELSE 0
        directions == IF ic.select_directions
                      THEN BitOr(16, key("Down", 8) + key("Up", 4) + key("Left", 2)
                                     + key("Right", 1))
                      ELSE 0
        buttons == IF ic.select_buttons
                   THEN BitOr(32, key("Start", 8) + key("Select", 4) + key("B", 2) + key("A", 1))
                   ELSE 0
    IN BitNot8(BitOr(directions, buttons))

\* InterruptController::write_joypad_reg: a 0 bit selects
write_joypad_reg(ic, reg_value) ==
    [ic EXCEPT !.select_directions = Bit(reg_value, 4) = 0,
               !.select_buttons = Bit(reg_value, 5) = 0]

\* MMU::new followed by init_default_values, which writes 0xFF to KEY1 (0xFF4D)
NewMMU(cartridge, cgb_mode) ==
    [mbc |-> cartridge, vram |-> <<>>, vram_bank_index |-> 0, wram |-> <<>>,
     wram_second_bank_index |-> 0, oam |-> <<>>, io_regs |-> <<>>, hram |-> <<>>,
     serial |-> <<>>,
     interrupt_controller |->
         [NewInterruptController(cgb_mode) EXCEPT !.requested_new_mode = "SomeTrue"],
     waiting_dma |-> [pending |-> FALSE, high_byte_addr |-> 0, timer |-> 0],
     panicked |-> FALSE]

\* MMU::read_io_reg
read_io_reg(m, addr, dbg) ==
    LET ic == m.interrupt_controller
    IN CASE addr = 65280 -> read_joypad_reg(ic)
         [] addr = 65284 -> ic.divider_register
         [] addr = 65285 -> ic.timer_counter
         [] addr = 65286 -> ic.timer_modulo
         [] addr = 65287 -> ic.timer_control
         [] addr = 65295 -> ic.interrupt_flag
         [] addr = 65359 -> BitOr(254, m.vram_bank_index)
         [] addr = 65392 ->
              IF dbg /\ m.wram_second_bank_index = 0 THEN Aborted
              ELSE BitOr(252, m.wram_second_bank_index)
         [] addr = 65357 ->
              (IF ic.cgb_mode THEN 128 ELSE 0)
              + (IF ic.requested_new_mode # "None" THEN 1 ELSE 0)
         [] OTHER -> Get(m.io_regs, addr - 65280)

\* the arm of read_memory for the unusable region 0xFEA0..0xFEFF
read_unusable_as_oam(m, addr) == Get(m.oam, addr - 65024)
read_unusable(m, addr) == 255

\* MMU::read_memory; read_mounted_rom is the first arm
RECURSIVE read_memory(_, _, _)
read_memory(m, addr, dbg) ==
    CASE addr \in 0..255 ->
           LET mounted == read_memory(m, 65360, dbg)
           IN IF mounted # 0 THEN mbc_read_memory(m.mbc, addr) ELSE bootstrap_rom(addr)
      [] addr \in 256..32767 -> mbc_read_memory(m.mbc, addr)
      [] addr \in 32768..40959 -> Get(m.vram, <<m.vram_bank_index, addr - 32768>>)
      [] addr \in 40960..49151 -> mbc_read_memory(m.mbc, addr)
      [] addr \in 49152..53247 -> Get(m.wram, <<0, addr - 49152>>)
      [] addr \in 53248..57343 -> Get(m.wram, <<m.wram_second_bank_index, addr - 49152>>)
      [] addr \in 57344..65023 -> read_memory(m, addr - 57344, dbg)
      [] addr \in 65024..65183 -> Get(m.oam, addr - 65024)
      [] addr \in 65184..65279 -> read_unusable(m, addr)
      [] addr \in 65280..65407 -> read_io_reg(m, addr, dbg)
      [] addr \in 65408..65534 -> Get(m.hram, addr - 65408)
      [] addr = 65535 -> m.interrupt_controller.interrupt_enable

\* DMAInfo::new
DMAInfo_new_one_tick_short(high_byte_addr) ==
    [pending |-> TRUE, high_byte_addr |-> high_byte_addr, timer |-> 159]
DMAInfo_new(high_byte_addr) ==
    [pending |-> TRUE, high_byte_addr |-> high_byte_addr, timer |-> 160]

\* the LCD_OAM_DMA_ADDR arm of MMU::write_io_reg: a DMA already waiting is kept
start_dma_restarting(waiting_dma, value) == DMAInfo_new(value)
start_dma(waiting_dma, value) ==
    IF waiting_dma.pending THEN waiting_dma ELSE DMAInfo_new(value)

\* MMU::write_io_reg, with switch_vram_bank and switch_wram_bank
write_io_reg(m, addr, value) ==
    LET ic == m.interrupt_controller
        index == value % 4
        set(next) == [m EXCEPT !.interrupt_controller = next]
    IN CASE addr = 65280 -> set(write_joypad_reg(ic, value))
         [] addr = 65284 -> set([ic EXCEPT !.divider_register = 0])
         [] addr = 65285 -> set([ic EXCEPT !.timer_counter = value])
         [] addr = 65286 -> set([ic EXCEPT !.timer_modulo = value])
         [] addr = 65287 -> set([ic EXCEPT !.timer_control = value])
         [] addr = 65295 -> set([ic EXCEPT !.interrupt_flag = value])
         [] addr = 65359 -> IF ic.cgb_mode THEN [m EXCEPT !.vram_bank_index = value % 2] ELSE m
         [] addr = 65392 ->
              IF ic.cgb_mode
              THEN [m EXCEPT !.wram_second_bank_index = IF index = 0 THEN 1 ELSE index]
              ELSE m
         [] addr = 65357 ->
              set([ic EXCEPT !.requested_new_mode =
                                 IF value % 2 = 1 THEN "SomeTrue" ELSE "SomeFalse"])
         [] OTHER ->
              [m EXCEPT !.io_regs = Put(@, addr - 65280, value),
                        !.waiting_dma = IF addr = 65350 THEN start_dma(@, value) ELSE @]

\* MMU::write_memory, the hook in front of the match: a write of 0x81 to SC (0xFF02)
\* hands the byte read from SB (0xFF01) to the serial sink
serial_hook_any_value(m, addr, value, dbg) ==
    IF addr = 65282
    THEN [m EXCEPT !.serial = Append(@, read_memory(m, 65281, dbg))]
    ELSE m
serial_hook(m, addr, value, dbg) ==
    IF addr = 65282 /\ value = 129
    THEN [m EXCEPT !.serial = Append(@, read_memory(m, 65281, dbg))]
    ELSE m

\* MMU::write_memory; write_mounted_rom is the first arm
RECURSIVE write_memory(_, _, _, _)
write_memory(m, addr, value, dbg) ==
    LET s == serial_hook(m, addr, value, dbg)
        mbc_write == LET r == mbc_write_memory(s.mbc, addr, value)
                     IN [s EXCEPT !.mbc = r.mbc, !.panicked = r.abort]
    IN CASE addr \in 0..255 -> IF read_memory(s, 65360, dbg) # 0 THEN mbc_write ELSE s
         [] addr \in 256..32767 -> mbc_write
         [] addr \in 32768..40959 ->
              [s EXCEPT !.vram = Put(@, <<s.vram_bank_index, addr - 32768>>, value)]
         [] addr \in 40960..49151 -> mbc_write
         [] addr \in 49152..53247 -> [s EXCEPT !.wram = Put(@, <<0, addr - 49152>>, value)]
         [] addr \in 53248..57343 ->
              [s EXCEPT !.wram = Put(@, <<s.wram_second_bank_index, addr - 49152>>, value)]
         [] addr \in 57344..65023 -> write_memory(s, addr - 57344, value, dbg)
         [] addr \in 65024..65183 -> [s EXCEPT !.oam = Put(@, addr - 65024, value)]
         [] addr \in 65184..65279 -> s
         [] addr \in 65280..65407 -> write_io_reg(s, addr, value)
         [] addr \in 65408..65534 -> [s EXCEPT !.hram = Put(@, addr - 65408, value)]
         [] addr = 65535 ->
              [s EXCEPT !.interrupt_controller = [@ EXCEPT !.interrupt_enable = value]]

\* the burst copy of MMU::tick: for offset in first..last-1, in order (the range
\* is split in halves, which keeps the order and the evaluation shallow)
DMA_LENGTH == 160
RECURSIVE dma_copy(_, _, _, _, _)
dma_copy(m, start_addr, first, last, dbg) ==
    LET value == read_memory(m, start_addr + first, dbg)
        middle == (first + last) \div 2
    IN IF m.panicked \/ first >= last THEN m
       ELSE IF last - first > 1
       THEN dma_copy(dma_copy(m, start_addr, first, middle, dbg), start_addr, middle, last, dbg)
       ELSE IF value = Aborted THEN [m EXCEPT !.panicked = TRUE]
       ELSE write_memory(m, 65024 + first, value, dbg)

\* MMU::tick with DMAInfo::tick
tick_copying_at_every_tick(m, dbg) ==
    LET timer == m.waiting_dma.timer - 1
        copied == dma_copy(m, m.waiting_dma.high_byte_addr * 256, 0, DMA_LENGTH, dbg)
    IN IF ~m.waiting_dma.pending THEN m
       ELSE IF copied.panicked THEN [m EXCEPT !.panicked = TRUE]
       ELSE IF timer # 0 THEN [copied EXCEPT !.waiting_dma.timer = timer]
       ELSE [copied EXCEPT !.waiting_dma = [pending |-> FALSE, high_byte_addr |-> 0,
                                            timer |-> 0]]
tick(m, dbg) ==
    LET timer == m.waiting_dma.timer - 1
        copied == dma_copy(m, m.waiting_dma.high_byte_addr * 256, 0, DMA_LENGTH, dbg)
    IN IF ~m.waiting_dma.pending THEN m
       ELSE IF timer # 0 THEN [m EXCEPT !.waiting_dma.timer = timer]
       ELSE IF copied.panicked THEN [m EXCEPT !.panicked = TRUE]
       ELSE [copied EXCEPT !.waiting_dma = [pending |-> FALSE, high_byte_addr |-> 0,
                                            timer |-> 0]]

-----------------------------------------------------------------------------
(* MMU actions *)

MaxWrites == 2
MaxDmaWrites == 3

\* the cartridges and console modes the MMU is constructed with
Configs ==
    { <<SimpleMBC, FALSE>>, <<MBC1(4, 0), FALSE>>, <<MBC1(4, 8192), TRUE>>,
      <<MBC1(4, 32768), FALSE>> }

\* one address at each end of every region of the map, and the registers with a side effect
Addrs ==
    { 0, 8192, 16384, 24576, 40960, 49152, 56831, 57344, 65023, 65184, 65279,
      65350, 65360, 65392, 65535 }
Values == { 0, 10, 255 }

\* a 32 KiB cartridge without controller, and 4-bank MBC1 cartridges with four
\* banks of RAM as each of the two copies of mbc1.rs drives them
Cartridges == { SimpleMBC, MBC1(4, 32768), MBC1_0x20(4, 32768) }
\* the writes of a program to the cartridge: bank select, RAM enable, RAM bank,
\* RAM cells; and the write that unmounts the boot ROM
CartWrites ==
    { <<65360, 1>>,
      <<8192, 0>>, <<8192, 2>>, <<16383, 35>>,
      <<0, 10>>, <<8191, 10>>, <<4096, 26>>, <<8191, 0>>,
      <<16384, 0>>, <<24575, 1>>, <<16384, 2>>,
      <<40960, 7>>, <<40960, 9>>, <<49151, 7>> }
CartReads == { 0, 255, 256, 16384, 32767, 40960, 49151 }
MaxCartWrites == 4

\* what reads of start_addr .. start_addr + 0x9F return
Source(m, high_byte_addr, dbg) ==
    [offset \in 0..(DMA_LENGTH - 1) |-> read_memory(m, high_byte_addr * 256 + offset, dbg)]

MmuObsInit ==
    [writes |-> 0, last_write |-> <<>>, dma_ticks |-> 0, src_at_start |-> <<>>,
     src_at_copy |-> <<>>, completed |-> FALSE,
     started_page |-> 0,   \* the value whose write to 0xFF46 started the last DMA
     rewritten |-> FALSE,  \* 0xFF46 has been written again while that DMA was waiting
     cart_ram |-> <<>>,    \* the bytes the program stored in enabled cartridge RAM, by bank and address
     data |-> 0,           \* the last value the program wrote to SB (0xFF01)
     expected |-> <<>>,    \* that value at each write of 0x81 to SC (0xFF02), in order
     polled |-> "NotPolled",  \* what the last call of is_interrupt_waiting returned
     timer_steps |-> 0,    \* calls of timer_step so far
     ticks |-> 0,          \* T-cycles handed to timer_step so far
     tima_at_start |-> 0,  \* TIMA before the first of them
     unmounted |-> FALSE,  \* a nonzero value has been written to 0xFF50
     key_changes |-> 0]    \* calls of change_key_state so far

Write(addr, value, max) ==
    /\ ~mmu.panicked
    /\ mmu_obs.writes < max
    /\ LET next == write_memory(mmu, addr, value, debug_assertions)
           starts == ~mmu.waiting_dma.pending /\ next.waiting_dma.pending
       IN /\ mmu' = next
          /\ mmu_obs' = [mmu_obs EXCEPT
                 !.writes = @ + 1,
                 !.last_write = <<addr, value>>,
                 !.completed = FALSE,
                 !.data = IF addr = 65281 THEN value ELSE @,
                 !.cart_ram = IF addr \in 40960..49151 /\ mmu.mbc.ram_enabled
                              THEN Put(@, <<mmu.mbc.ram_index, addr>>, value) ELSE @,
                 !.unmounted = @ \/ (addr = 65360 /\ value # 0),
                 !.expected = IF addr = 65282 /\ value = 129 THEN Append(@, mmu_obs.data) ELSE @,
                 !.dma_ticks = IF starts THEN 0 ELSE @,
                 !.started_page = IF starts THEN value ELSE @,
                 !.rewritten = IF starts THEN FALSE
                               ELSE @ \/ (addr = 65350 /\ mmu.waiting_dma.pending),
                 !.src_at_start = IF starts THEN Source(next, value, debug_assertions) ELSE @]
    /\ UNCHANGED <<debug_assertions, hostVars, cpuVars, ppuVars>>

Read(addr) ==
    /\ ~mmu.panicked
    /\ mmu' = IF read_memory(mmu, addr, debug_assertions) = Aborted
              THEN [mmu EXCEPT !.panicked = TRUE]
              ELSE mmu
    /\ UNCHANGED <<mmu_obs, debug_assertions, hostVars, cpuVars, ppuVars>>

Tick ==
    /\ ~mmu.panicked
    /\ mmu' = tick(mmu, debug_assertions)
    /\ mmu_obs' =
         IF ~mmu.waiting_dma.pending THEN mmu_obs
         ELSE [mmu_obs EXCEPT
                  !.dma_ticks = @ + 1,
                  !.completed = ~mmu'.waiting_dma.pending /\ ~mmu'.panicked,
                  !.src_at_copy =
                      IF mmu.waiting_dma.timer = 1
                      THEN Source(mmu, mmu.waiting_dma.high_byte_addr, debug_assertions)
                      ELSE @]
    /\ UNCHANGED <<debug_assertions, hostVars, cpuVars, ppuVars>>

\* the writes of an OAM DMA scenario: the source page 0xC0, the OAM, the DMA register
DmaWrites ==
    { <<49152, 17>>, <<49152, 34>>, <<49311, 51>>, <<65024, 68>>, <<65350, 192>>,
      <<65350, 208>> }
\* the values of the countdown at which a write may fall while a DMA is pending
DmaWriteMoments == { 160, 80, 1 }

\* the writes of a serial scenario: SB, SC with and without 0x81, 0x81 to the
\* neighbours of SC and to the echo of 0x0202
MaxSerialWrites == 4
SerialWrites ==
    { <<65281, 65>>, <<65281, 129>>, <<65282, 129>>, <<65282, 128>>, <<65282, 1>>,
      <<65283, 129>>, <<57858, 129>>, <<49152, 129>> }

-----------------------------------------------------------------------------
(* The interrupt and timer controller: src/src/interrupt.rs                  *)

\* bitflags! IntKind, in the order is_interrupt_waiting tries them
IntKinds == <<"VBLANK", "LCD_STAT", "TIMER", "SERIAL", "JOYPAD">>
IntKindBits(kind) ==
    CASE kind = "VBLANK" -> 1
      [] kind = "LCD_STAT" -> 2
      [] kind = "TIMER" -> 4
      [] kind = "SERIAL" -> 8
      [] kind = "JOYPAD" -> 16
      [] kind = "DUMMY" -> 224

\* the test `if !self.master_enable { return None; }` of is_interrupt_waiting
interrupts_masked_never(ic) == FALSE
interrupts_masked(ic) == ~ic.master_enable

\* InterruptController::is_interrupt_waiting
RECURSIVE first_requested(_, _)
first_requested(requested, i) ==
    IF i > Len(IntKinds) THEN "None"
    ELSE IF BitAnd(requested, IntKindBits(IntKinds[i])) = IntKindBits(IntKinds[i])
    THEN IntKinds[i]
    ELSE first_requested(requested, i + 1)
is_interrupt_waiting(ic) ==
    LET requested == BitAnd(BitAnd(ic.interrupt_flag, ic.interrupt_enable),
                            BitNot8(IntKindBits("DUMMY")))
    IN IF interrupts_masked(ic) THEN "None" ELSE first_requested(requested, 1)

\* the values of IE and IF a program can write
EnableValues == 0..31
FlagValues == (0..31) \cup (224..255)

\* the CPU polls the controller
Poll ==
    /\ mmu_obs.polled = "NotPolled"
    /\ mmu_obs' = [mmu_obs EXCEPT !.polled = is_interrupt_waiting(mmu.interrupt_controller)]
    /\ UNCHANGED <<mmu, debug_assertions, hostVars, cpuVars, ppuVars>>

\* InterruptController::trigger_vblank_int, trigger_timer_int, trigger_lcd_stat_int
trigger_int_without_edge(ic, kind) ==
    [ic EXCEPT !.interrupt_flag = BitOr(@, IntKindBits(kind))]
trigger_int(ic, kind) ==
    [ic EXCEPT !.interrupt_flag = BitOr(@, IntKindBits(kind)),
               !.new_int_waiting = TRUE,
               !.should_redraw = IF kind = "VBLANK" THEN TRUE ELSE @]

\* InterruptController::handle_new_interrupt: the edge flag, cleared by the call
handle_new_interrupt(ic) ==
    [res |-> ic.new_int_waiting, ic |-> [ic EXCEPT !.new_int_waiting = FALSE]]

\* InterruptController::timer_divider and is_timer_enabled
timer_divider_fixed(timer_control) == 1024
timer_divider(timer_control) ==
    CASE timer_control % 4 = 0 -> 1024
      [] timer_control % 4 = 1 -> 16
      [] timer_control % 4 = 2 -> 64
      [] timer_control % 4 = 3 -> 256
is_timer_enabled(timer_control) == Bit(timer_control, 2) = 1

\* the loop `while self.timer_sub_counter >= divider` of timer_step
RECURSIVE timer_loop(_, _)
timer_loop(ic, divider) ==
    IF ic.timer_sub_counter < divider THEN ic
    ELSE LET carry == ic.timer_counter = 255
             triggered == IF carry THEN trigger_int(ic, "TIMER") ELSE ic
         IN timer_loop([triggered EXCEPT
                            !.timer_counter = IF carry THEN ic.timer_modulo ELSE @ + 1,
                            !.timer_sub_counter = @ - divider],
                       divider)

\* InterruptController::timer_step
timer_step(ic, ticks) ==
    LET counted == ic.divider_counter + ticks
        divided == [ic EXCEPT !.divider_register = U8(@ + counted \div 256),
                              !.divider_counter = counted % 256]
    IN IF is_timer_enabled(ic.timer_control)
       THEN timer_loop([divided EXCEPT !.timer_sub_counter = @ + ticks],
                       timer_divider(ic.timer_control))
       ELSE [divided EXCEPT !.timer_counter = 0, !.timer_sub_counter = 0]

MaxTimerSteps == 5
TickCounts == {4, 12, 64, 1024}
TimerControls == {1, 4, 5, 6, 7}
TimerCounters == {0, 254, 255}
TimerModulos == {0, 253, 255}

\* the emulation loop advances the timers
TimerStep(ticks) ==
    /\ mmu_obs.timer_steps < MaxTimerSteps
    /\ mmu' = [mmu EXCEPT !.interrupt_controller = timer_step(@, ticks)]
    /\ mmu_obs' = [mmu_obs EXCEPT !.timer_steps = @ + 1, !.ticks = @ + ticks]
    /\ UNCHANGED <<debug_assertions, hostVars, cpuVars, ppuVars>>

\* InterruptController::change_key_state: stores the state of the key and then
\* reaches todo!("Trigger interruption")
Keys == {"Up", "Down", "Left", "Right", "A", "B", "Start", "Select"}
change_key_state(ic, key, pressed) ==
    [ic |-> [ic EXCEPT !.keys_state = IF pressed THEN @ \cup {key} ELSE @ \ {key}],
     abort |-> TRUE]

\* the host reports a key event
ChangeKeyState(key, pressed) ==
    /\ ~mmu.panicked
    /\ \E r \in {change_key_state(mmu.interrupt_controller, key, pressed)} :
           mmu' = [mmu EXCEPT !.interrupt_controller = r.ic, !.panicked = r.abort]
    /\ mmu_obs' = [mmu_obs EXCEPT !.key_changes = @ + 1]
    /\ UNCHANGED <<debug_assertions, hostVars, cpuVars, ppuVars>>

\* the writes a program makes to P1 (0xFF00) to select the lines it reads
MaxJoypadWrites == 2
JoypadWrites == {<<65280, 0>>, <<65280, 16>>, <<65280, 32>>, <<65280, 48>>}

-----------------------------------------------------------------------------
(* The CPU with interrupt service, HALT and STOP.  The drivers and tests     *)
(* construct the CPU as CPU::new(memory, interrupt_controller); the step()   *)
(* of src/src/cpu/mod.rs predates that and never consults the controller.   *)
(* The prologue of step (poll, wake, inject) and the arms for                *)
(* EnableInterrupts, DisableInterrupts, Halt and Stop follow the             *)
(* specification; instruction decoding, the micro-op sequences and their     *)
(* execution are those of the CPU specification above.                       *)

vector(kind) ==
    CASE kind = "VBLANK" -> 64
      [] kind = "LCD_STAT" -> 72
      [] kind = "TIMER" -> 80
      [] kind = "SERIAL" -> 88
      [] kind = "JOYPAD" -> 96

\* the five micro-ops injected to service an interrupt: two waits, PC high then PC
\* low pushed through SP with pre-decrement, PC loaded with the vector
interrupt_service_without_push(kind) == <<NOP, NOP, NOP, NOP, LoadReg16Lit("PC", vector(kind))>>
interrupt_service(kind) == <<NOP, NOP>> \o PushPC \o <<LoadReg16Lit("PC", vector(kind))>>

\* the controller after the CPU has accepted an interrupt of the kind
acknowledge(ic, kind) ==
    [ic EXCEPT !.interrupt_flag = @ - BitAnd(@, IntKindBits(kind)), !.master_enable = FALSE]

\* a halted or stopped CPU wakes when an interrupt was triggered since the last poll
wakes_always(asleep, triggered) == TRUE
wakes(asleep, triggered) == ~asleep \/ triggered

\* the decoder, with HALT (0x76) and STOP (0x10 0x00)
decode_with_halt(b0, b1, b2) ==
    CASE b0 = 118 -> [n |-> 1, instr |-> [i |-> "Halt"]]
      [] b0 = 16 -> [n |-> 2, instr |-> [i |-> "Stop"]]
      [] OTHER -> decode_instruction(b0, b1, b2)

\* Instruction::to_micro_ops, with `Instruction::Halt => vec![MicroOp::Halt]`
to_micro_ops_with_halt(instr) ==
    IF instr.i \in {"Halt", "Stop"} THEN <<[op |-> instr.i]>> ELSE to_micro_ops(instr)

IrqInit ==
    [halted |-> FALSE, stopped |-> FALSE,
     \* observation
     decoded |-> 0,          \* instructions decoded so far
     triggers |-> 0,         \* interrupts triggered so far
     enables |-> 0,          \* EnableInterrupts micro-ops executed so far
     services |-> 0,         \* interrupt services started so far
     initial_enable |-> FALSE, \* master_enable at construction of the scenario
     kind |-> "None",        \* the kind of the last service started
     svc_steps |-> 0,        \* step() calls spent on it so far
     svc_pc |-> 0,           \* PC and SP when it started
     svc_sp |-> 0,
     svc_enable |-> FALSE,   \* master_enable when it started
     svc_asleep |-> FALSE,   \* whether the CPU was halted or stopped when it started
     if_after |-> 0,         \* IF and master_enable after the step that started it
     enable_after |-> FALSE,
     retriggered |-> FALSE,  \* the same kind was triggered again since
     decoded_at_halt |-> 0,  \* instructions decoded when the CPU last halted or stopped
     trig_since_halt |-> FALSE,    \* an interrupt was triggered since the CPU halted
     woke_without_trigger |-> FALSE,
     slept_through |-> FALSE,      \* stayed halted in a step taken after a trigger
     woke_disabled |-> FALSE]      \* woke with master_enable clear and decoded

MaxIrqInstr == 3
MaxTriggers == 2
\* NOP, STOP, HALT, RETI, DI, EI
IrqOpcodes == {0, 16, 118, 217, 243, 251}
TriggerKinds == {"VBLANK", "LCD_STAT", "TIMER"}

\* the PPU or the timer triggers an interrupt between two CPU steps
Trigger(kind) ==
    /\ ~cpu_panicked
    /\ irq.triggers < MaxTriggers
    /\ mmu' = [mmu EXCEPT !.interrupt_controller = trigger_int(@, kind)]
    /\ irq' = [irq EXCEPT !.triggers = @ + 1,
                          !.trig_since_halt = @ \/ irq.halted \/ irq.stopped,
                          !.retriggered = @ \/ irq.kind = kind]
    /\ UNCHANGED <<debug_assertions, hostVars, cpu, pipeline, memory, cpu_panicked, obs, mmu_obs, ppuVars>>

\* the prologue of step() when the pipeline is empty: poll the edge flag, wake,
\* poll for a pending interrupt, and inject its service or decode an instruction
Prologue(c, mem, ic0, b0, b1, b2, dbg) ==
    LET asleep == irq.halted \/ irq.stopped
        h == handle_new_interrupt(ic0)
        kind == is_interrupt_waiting(h.ic)
        dec == decode_with_halt(b0, b1, b2)
        bytes == <<b0, b1, b2>>
        fetched == [k \in 0..(dec.n - 1) |-> U16v(c.pc + k)]
    IN IF ~wakes(asleep, h.res)
       THEN [cpu |-> c, pipeline |-> <<>>, memory |-> mem, ic |-> h.ic, awake |-> FALSE,
             kind |-> "None", decoded |-> FALSE, panic |-> FALSE]
       ELSE IF kind # "None"
       THEN [cpu |-> c, pipeline |-> interrupt_service(kind), memory |-> mem,
             ic |-> acknowledge(h.ic, kind), awake |-> TRUE, kind |-> kind,
             decoded |-> FALSE, panic |-> FALSE]
       ELSE [cpu |-> [c EXCEPT !.pc = advance_pc(c.pc, dec.n)],
             pipeline |-> IF dec.instr.i = "Panic" THEN <<>>
                          ELSE to_micro_ops_with_halt(dec.instr),
             panic |-> dec.instr.i = "Panic" \/ (dbg /\ c.pc + dec.n > 65535),
             memory |-> [a \in DOMAIN mem \cup {fetched[k] : k \in DOMAIN fetched} |->
                            IF \E k \in DOMAIN fetched : a = fetched[k]
                            THEN bytes[(CHOOSE k \in DOMAIN fetched : a = fetched[k]) + 1]
                            ELSE mem[a]],
             ic |-> h.ic, awake |-> TRUE, kind |-> "None", decoded |-> TRUE]

\* the arms of step() for the micro-ops that act on the controller or suspend the CPU
IsControlOp(op) == op.op \in {"EnableInterrupts", "DisableInterrupts", "Halt", "Stop"}
control_master_enable(op, master_enable) ==
    CASE op.op = "EnableInterrupts" -> TRUE
      [] op.op = "DisableInterrupts" -> FALSE
      [] OTHER -> master_enable

\* CPU::step of the CPU that services interrupts
step_irq ==
    /\ ~cpu_panicked
    /\ UNCHANGED <<debug_assertions, hostVars, obs, mmu_obs, ppuVars>>
    /\ LET ic0 == mmu.interrupt_controller
           fetching == pipeline = <<>>
           asleep == irq.halted \/ irq.stopped
           running == [cpu |-> cpu, pipeline |-> pipeline, memory |-> memory, ic |-> ic0,
                       awake |-> TRUE, kind |-> "None", decoded |-> FALSE, panic |-> FALSE]
       IN \E b0 \in (IF fetching THEN ByteAt(memory, cpu.pc, IrqOpcodes) ELSE {0}) :
          \E b1 \in (IF fetching THEN ByteAt(memory, U16v(cpu.pc + 1), {0}) ELSE {0}) :
          \E b2 \in (IF fetching THEN ByteAt(memory, U16v(cpu.pc + 2), {0}) ELSE {0}) :
          \E p \in {IF fetching THEN Prologue(cpu, memory, ic0, b0, b1, b2, debug_assertions)
                     ELSE running} :
          \E ra \in {IF p.pipeline = <<>> \/ p.panic THEN NoAddr
                      ELSE ReadAddr(p.cpu, Head(p.pipeline))} :
          \E d \in (IF ra = NoAddr THEN {0} ELSE ByteAt(p.memory, ra, {0})) :
          \E s \in {IF p.pipeline = <<>> \/ p.panic \/ IsControlOp(Head(p.pipeline))
                     THEN [cpu |-> p.cpu, pipeline |-> IF p.pipeline = <<>> THEN <<>>
                                                       ELSE Tail(p.pipeline),
                           memory |-> p.memory, panic |-> p.panic]
                     ELSE RunOne([cpu |-> p.cpu, pipeline |-> p.pipeline,
                                  memory |-> p.memory, panic |-> FALSE, ran |-> 0,
                                  prepended |-> 0, jumped |-> FALSE, last_op |-> "None",
                                  flags_in |-> 0], d, debug_assertions)} :
          \E op \in {IF p.pipeline = <<>> \/ p.panic THEN NOP ELSE Head(p.pipeline)} :
          \E ic1 \in {[p.ic EXCEPT !.master_enable = control_master_enable(op, @)]} :
            /\ p.decoded => irq.decoded < MaxIrqInstr
            /\ cpu_panicked' = s.panic
            /\ IF s.panic THEN UNCHANGED <<cpu, pipeline, memory, mmu, irq>>
               ELSE /\ cpu' = s.cpu
                    /\ pipeline' = s.pipeline
                    /\ memory' = s.memory
                    /\ mmu' = [mmu EXCEPT !.interrupt_controller = ic1]
                    /\ irq' = [irq EXCEPT
                          !.halted = (@ /\ ~p.awake) \/ op.op = "Halt",
                          !.stopped = (@ /\ ~p.awake) \/ op.op = "Stop",
                          !.decoded = IF p.decoded THEN @ + 1 ELSE @,
                          !.enables = IF op.op = "EnableInterrupts" THEN @ + 1 ELSE @,
                          !.services = IF p.kind # "None" THEN @ + 1 ELSE @,
                          !.kind = IF p.kind # "None" THEN p.kind ELSE @,
                          !.svc_steps = IF p.kind # "None" THEN 1
                                        ELSE IF irq.kind # "None" /\ @ < 6 /\ p.awake
                                        THEN @ + 1 ELSE @,
                          !.svc_pc = IF p.kind # "None" THEN cpu.pc ELSE @,
                          !.svc_sp = IF p.kind # "None" THEN cpu.sp ELSE @,
                          !.svc_enable = IF p.kind # "None" THEN ic0.master_enable ELSE @,
                          !.svc_asleep = IF p.kind # "None" THEN asleep ELSE @,
                          !.if_after = IF p.kind # "None" THEN ic1.interrupt_flag ELSE @,
                          !.enable_after = IF p.kind # "None" THEN ic1.master_enable ELSE @,
                          !.retriggered = IF p.kind # "None" THEN FALSE ELSE @,
                          !.decoded_at_halt =
                              IF op.op \in {"Halt", "Stop"}
                              THEN irq.decoded + (IF p.decoded THEN 1 ELSE 0) ELSE @,
                          !.trig_since_halt = IF op.op \in {"Halt", "Stop"} \/ p.awake
                                              THEN FALSE ELSE @,
                          !.woke_without_trigger =
                              @ \/ (asleep /\ p.awake /\ ~irq.trig_since_halt),
                          !.slept_through = @ \/ (~p.awake /\ irq.trig_since_halt),
                          !.woke_disabled =
                              @ \/ (asleep /\ p.decoded /\ ~ic0.master_enable)]

-----------------------------------------------------------------------------
(* The PPU dot machine: src/src/ppu/mod.rs with src/src/ppu/fetcher.rs and  *)
(* src/backend/src/ppu/pixel.rs.  The PPU's memory is kept sparse like the  *)
(* MMU's arrays; the frame buffers hold the nonzero pixels.                 *)

SCREEN_WIDTH == 160
SCREEN_HEIGHT == 144
SCAN_LINE_COUNT == 154
DOT_PER_LINE_COUNT == 456
HBLANK_START == 252

Waiting == [state |-> "Waiting"]

\* PPU::new over a memory holding the given SCX and LYC
NewPPU(scroll_x, lyc) ==
    [memory |-> Put(Put(<<>>, 65347, scroll_x), 65349, lyc),
     interrupt_controller |-> NewInterruptController(FALSE),
     current_dot_in_line |-> 0, previous_frame |-> <<>>, frame |-> <<>>,
     fetcher |-> Waiting, fifo |-> <<>>]

current_line(p) == Get(p.memory, 65348)

current_mode(p) ==
    IF current_line(p) >= SCREEN_HEIGHT THEN "VBlank"
    ELSE IF p.current_dot_in_line < 80 THEN "OAMSearch"
    ELSE IF p.current_dot_in_line < HBLANK_START THEN "LCDTransfer"
    ELSE "HBlank"

\* Mode as u8
ModeBits(mode) ==
    CASE mode = "HBlank" -> 0 [] mode = "VBlank" -> 1 [] mode = "OAMSearch" -> 2
      [] mode = "LCDTransfer" -> 3

update_status_reg(p) ==
    LET coincidence == current_line(p) = Get(p.memory, 65349)
        updated_part == BitOr(IF coincidence THEN 8 ELSE 0, ModeBits(current_mode(p)))
        old_reg == Get(p.memory, 65345)
    IN [p EXCEPT !.memory = Put(@, 65345, BitOr(BitAnd(old_reg, 240), updated_part))]

next_dot_wrapping_at_153(p) ==
    LET dot == p.current_dot_in_line + 1
        line == current_line(p) + 1
    IN IF dot = DOT_PER_LINE_COUNT
       THEN [p EXCEPT !.current_dot_in_line = 0,
                      !.memory = Put(@, 65348, IF line = SCAN_LINE_COUNT - 1 THEN 0 ELSE line)]
       ELSE [p EXCEPT !.current_dot_in_line = dot]
next_dot(p) ==
    LET dot == p.current_dot_in_line + 1
        line == current_line(p) + 1
    IN IF dot = DOT_PER_LINE_COUNT
       THEN [p EXCEPT !.current_dot_in_line = 0,
                      !.memory = Put(@, 65348, IF line = SCAN_LINE_COUNT THEN 0 ELSE line)]
       ELSE [p EXCEPT !.current_dot_in_line = dot]

prepare_frame_and_fetcher(p) ==
    [p EXCEPT !.previous_frame = p.frame, !.frame = <<>>, !.fifo = <<>>, !.fetcher = Waiting]

\* FetcherState::next, with Fetcher::new_background
FetcherState_next(p) ==
    LET f == p.fetcher
        lcdc == Get(p.memory, 65344)
        total_y_scroll == U8(current_line(p) + Get(p.memory, 65346))
    IN CASE f.state = "Waiting" ->
              [state |-> "Ready",
               map_addr |-> IF Bit(lcdc, 3) = 1 THEN 39936 ELSE 38912,
               addressing_mode |-> IF Bit(lcdc, 4) = 1 THEN "From8000" ELSE "From8800",
               tile_x |-> Get(p.memory, 65347) \div 8,
               tile_y |-> total_y_scroll \div 8,
               sub_y |-> total_y_scroll % 8]
         [] f.state = "Ready" -> [f EXCEPT !.state = "Working"] @@ [x |-> 0]
         [] f.state = "Working" ->
              IF f.x + 1 = SCREEN_WIDTH THEN [state |-> "Finished"]
              ELSE [f EXCEPT !.x = @ + 1]
         [] f.state = "Finished" -> f

\* byte_pair_to_pixels: the colours of the eight pixels, leftmost first
byte_pair_to_pixels(low, high) ==
    [index \in 1..8 |-> Bit(high, 8 - index) * 2 + Bit(low, 8 - index)]

\* Fetcher::fetch_pixels with read_tile_pixels: the colours fetched
fetch_pixels(p) ==
    LET f == p.fetcher
        tile_id == Get(p.memory, f.map_addr + f.tile_y * 32 + f.tile_x)
        real_tile_id == IF f.addressing_mode = "From8800" /\ tile_id < 128
                        THEN tile_id + 256 ELSE tile_id
        row_addr == 32768 + real_tile_id * 16 + f.sub_y * 2
    IN byte_pair_to_pixels(Get(p.memory, row_addr), Get(p.memory, row_addr + 1))

\* InterruptController::trigger_vblank_int
trigger_vblank_int(ic, at) ==
    [ic EXCEPT !.interrupt_flag = BitOr(@, 1), !.new_int_waiting = TRUE,
               !.should_redraw = TRUE, !.vblank_log = Append(@, at)]

\* InterruptController::ppu_mode_update: the VBlank interrupt is raised on the
\* cycle that finds the PPU in VBlank when the cycle before did not
ppu_mode_update(ic, mode, at) ==
    IF mode = "VBlank" /\ ic.ppu_mode # "VBlank"
    THEN [trigger_vblank_int(ic, at) EXCEPT !.ppu_mode = mode]
    ELSE [ic EXCEPT !.ppu_mode = mode]

\* the fifo extended with the pixels of the next tile of the row
refill(p) ==
    [p EXCEPT !.fifo = @ \o fetch_pixels(p), !.fetcher.tile_x = (@ + 1) % 32]

\* the LCDTransfer arm of PPU::cycle
transfer(p) ==
    LET q == [p EXCEPT !.fetcher = FetcherState_next(p)]
        ready == refill(q)
        scroll_x == Get(p.memory, 65347)
        working == IF Len(q.fifo) < 8 THEN refill(q) ELSE q
        pixel == Head(working.fifo)
        offset == current_line(p) * SCREEN_WIDTH + q.fetcher.x
        bg_palette == Get(p.memory, 65351)
        actual_color == (bg_palette \div (2 ^ (pixel * 2))) % 4
    IN CASE p.current_dot_in_line = 80 -> prepare_frame_and_fetcher(p)
         [] p.current_dot_in_line > 80 /\ q.fetcher.state = "Ready" ->
              [ready EXCEPT !.fifo = SubSeq(@, (scroll_x % 8) + 1, Len(@))]
         [] p.current_dot_in_line > 80 /\ q.fetcher.state = "Working" ->
              [working EXCEPT !.fifo = Tail(@), !.frame = Put(@, offset, actual_color)]
         [] OTHER -> q

\* PPU::cycle
cycle(p) ==
    LET status == update_status_reg(p)
        mode == current_mode(status)
        at == <<current_line(p), p.current_dot_in_line>>
        updated == [status EXCEPT !.interrupt_controller = ppu_mode_update(@, mode, at)]
    IN next_dot(IF mode = "LCDTransfer" THEN transfer(updated) ELSE updated)

-----------------------------------------------------------------------------
(* PPU actions *)

MaxFrames == 2
ScrollXs == { 0, 5 }
LYCs == { 0, 144 }

PpuObsInit == [frames |-> 0, ly_trace |-> <<0>>, prev_trace |-> <<>>, prev_triggers |-> 0,
               log_at_frame_start |-> 0, stat_prev |-> TRUE, stat_edges |-> 0]

\* stat_cond over the PPU whose status register the cycle has just updated: an
\* enabled source of the STAT register whose condition holds
stat_cond(status) ==
    \E stat \in {Get(status.memory, 65345)} : \E mode \in {current_mode(status)} :
       \/ Bit(stat, 6) = 1 /\ current_line(status) = Get(status.memory, 65349)
       \/ Bit(stat, 5) = 1 /\ mode = "OAMSearch"
       \/ Bit(stat, 4) = 1 /\ mode = "VBlank"
       \/ Bit(stat, 3) = 1 /\ mode = "HBlank"

\* stat_cond as the cycle starting in p finds it
cycle_stat_cond(p) == \E status \in {update_status_reg(p)} : stat_cond(status)

\* the rising edges of stat_cond over consecutive cycles, after a cycle that
\* found it at prev
RECURSIVE rising_edges(_, _)
rising_edges(conds, prev) ==
    IF conds = <<>> THEN 0
    ELSE (IF Head(conds) /\ ~prev THEN 1 ELSE 0) + rising_edges(Tail(conds), Head(conds))

\* PPU::step: four cycles, over the PPU's own variables
PPU_step ==
    /\ ppu_obs.frames < MaxFrames
    /\ \E p1 \in {cycle(ppu)} : \E p2 \in {cycle(p1)} : \E p3 \in {cycle(p2)} :
       \E next \in {cycle(p3)} :
       \E conds \in {<<cycle_stat_cond(ppu), cycle_stat_cond(p1), cycle_stat_cond(p2),
                       cycle_stat_cond(p3)>>} :
       \E edges \in {ppu_obs.stat_edges + rising_edges(conds, ppu_obs.stat_prev)} :
       \E seen \in {[ppu_obs EXCEPT !.stat_prev = conds[4],
                                     !.stat_edges = IF edges > 2 THEN 2 ELSE edges]} :
       LET line == current_line(next)
           log == next.interrupt_controller.vblank_log
       IN /\ UNCHANGED <<pixel_fifo, fifo_obs>>
          /\ ppu' = next
          /\ ppu_obs' =
               IF line = current_line(ppu) THEN seen
               ELSE IF line # 0 THEN [seen EXCEPT !.ly_trace = Append(@, line)]
               ELSE [seen EXCEPT !.frames = ppu_obs.frames + 1, !.ly_trace = <<0>>,
                                 !.prev_trace = ppu_obs.ly_trace,
                                 !.prev_triggers = Len(log) - ppu_obs.log_at_frame_start,
                                 !.log_at_frame_start = Len(log)]

\* PPU::step called on its own
ppu_step ==
    /\ PPU_step
    /\ UNCHANGED <<debug_assertions, hostVars, cpuVars, mmuVars>>

\* PPU::step over the first scanlines of a frame
MaxLines == 3
ppu_step_first_lines ==
    /\ current_line(ppu) < MaxLines
    /\ PPU_step
    /\ UNCHANGED <<debug_assertions, hostVars, cpuVars, mmuVars>>

-----------------------------------------------------------------------------
(* The pixel FIFO of the PPU: src/backend/src/ppu/pixel_fifo.rs, with the   *)
(* sprites (src/backend/src/ppu/oam.rs), the pixels (pixel.rs) and the      *)
(* fetcher (src/src/ppu/fetcher.rs).  The memory the FIFO reads is kept     *)
(* sparse: OAM and the registers are cells of pixel_fifo.memory, and video  *)
(* RAM the program has not written holds the image VramByte.                *)

VramByte(addr) == (addr * 7 + addr \div 16) % 256
fifo_read_memory(f, addr) ==
    IF addr \in DOMAIN f.memory THEN f.memory[addr]
    ELSE IF addr \in 32768..40959 THEN VramByte(addr) ELSE 0

\* pixel.rs: Pixel with PixelSource::BackgroundWindow / PixelSource::OAM
BackgroundWindowPixel(color) == [color |-> color, source |-> "BackgroundWindow"]
OamPixel(color, palette, bg_priority) ==
    [color |-> color, source |-> "OAM", palette |-> palette, bg_priority |-> bg_priority]

\* read_tile_pixels: the eight pixels of a tile row, each with the given source
read_tile_pixels(f, real_tile_id, in_tile_y, source) ==
    LET row_addr == 32768 + real_tile_id * 16 + in_tile_y * 2
        colors == byte_pair_to_pixels(fifo_read_memory(f, row_addr),
                                      fifo_read_memory(f, row_addr + 1))
    IN [index \in 1..8 |-> [source EXCEPT !.color = colors[index]]]

\* Fetcher::new_background, Fetcher::new_window; NoFetcher is Option::None
NoFetcher == [kind |-> "None"]
new_background(map_addr, addressing_mode, scroll_x, scroll_y, scan_line) ==
    LET total_y_scroll == (scan_line + scroll_y) % 256
    IN [kind |-> "Background", map_addr |-> map_addr, addressing_mode |-> addressing_mode,
        tile_x |-> scroll_x \div 8, tile_y |-> total_y_scroll \div 8,
        sub_y |-> total_y_scroll % 8]
new_window(map_addr, addressing_mode, window_scan_line) ==
    [kind |-> "Window", map_addr |-> map_addr, addressing_mode |-> addressing_mode,
     tile_x |-> 0, tile_y |-> window_scan_line \div 8, sub_y |-> window_scan_line % 8]

\* Fetcher::fetch_pixels: the fetcher afterwards and the eight pixels
fetcher_fetch_pixels(fetcher, f) ==
    LET tile_id == fifo_read_memory(f, fetcher.map_addr + fetcher.tile_y * 32 + fetcher.tile_x)
        real_tile_id == IF fetcher.addressing_mode = "From8800" /\ tile_id < 128
                        THEN tile_id + 256 ELSE tile_id
    IN [fetcher |-> [fetcher EXCEPT !.tile_x = (@ + 1) % 32],
        pixels |-> read_tile_pixels(f, real_tile_id, fetcher.sub_y, BackgroundWindowPixel(0))]

\* ControlReg: the tile map and the addressing mode LCDC selects
addressing_mode(lcdc) == IF Bit(lcdc, 4) = 1 THEN "From8000" ELSE "From8800"
background_tile_map_addr(lcdc) == IF Bit(lcdc, 3) = 1 THEN 39936 ELSE 38912
window_tile_map_addr(lcdc) == IF Bit(lcdc, 6) = 1 THEN 39936 ELSE 38912

\* PixelFIFO::new; NoLine is Option::None of window_scan_line
NoLine == 0 - 1
NewPixelFIFO(mem) ==
    [background_window_fetcher |-> NoFetcher, objects |-> <<>>, oam_size |-> 8,
     background_fifo |-> <<>>, oam_fifo |-> <<>>, memory |-> mem,
     window_scan_line |-> NoLine, current_scan_line |-> 0, current_x |-> 0,
     panicked |-> FALSE]

fifo_abort(f) == [f EXCEPT !.panicked = TRUE]

\* PixelFIFO::current_requested_mode; "Abort" is unimplemented!()
current_requested_mode(f) ==
    LET lcdc == fifo_read_memory(f, 65344)
        window_y_pos == fifo_read_memory(f, 65354)
        window_x_pos == fifo_read_memory(f, 65355)
    IN IF Bit(lcdc, 0) = 0 THEN "None"
       ELSE IF Bit(lcdc, 5) = 0 THEN "Background"
       ELSE IF window_x_pos < 7 \/ window_x_pos = 166 THEN "Abort"
       ELSE IF f.current_scan_line >= window_y_pos /\ f.current_x >= window_x_pos - 7
       THEN "Window" ELSE "Background"

\* PixelFIFO::match_fetcher_mode
match_fetcher_mode_keeping_fifo(f, dbg) ==
    LET requested_state == current_requested_mode(f)
        lcdc == fifo_read_memory(f, 65344)
        scan_line == IF f.window_scan_line = NoLine THEN 0 ELSE f.window_scan_line
    IN IF requested_state = "Abort" THEN fifo_abort(f)
       ELSE IF requested_state = f.background_window_fetcher.kind THEN f
       ELSE IF requested_state = "Background"
       THEN [f EXCEPT !.background_window_fetcher =
                          new_background(background_tile_map_addr(lcdc), addressing_mode(lcdc),
                                         fifo_read_memory(f, 65347),
                                         fifo_read_memory(f, 65346), f.current_scan_line)]
       ELSE IF requested_state = "Window"
       THEN IF dbg /\ scan_line = 255 THEN fifo_abort(f)
            ELSE [f EXCEPT !.window_scan_line = (scan_line + 1) % 256,
                           !.background_window_fetcher =
                               new_window(window_tile_map_addr(lcdc), addressing_mode(lcdc),
                                          scan_line)]
       ELSE [f EXCEPT !.background_window_fetcher = NoFetcher]
match_fetcher_mode(f, dbg) ==
    LET requested_state == current_requested_mode(f)
        lcdc == fifo_read_memory(f, 65344)
        scan_line == IF f.window_scan_line = NoLine THEN 0 ELSE f.window_scan_line
    IN IF requested_state = "Abort" THEN fifo_abort(f)
       ELSE IF requested_state = f.background_window_fetcher.kind THEN f
       ELSE IF requested_state = "Background"
       THEN [f EXCEPT !.background_fifo = <<>>,
                      !.background_window_fetcher =
                          new_background(background_tile_map_addr(lcdc), addressing_mode(lcdc),
                                         fifo_read_memory(f, 65347),
                                         fifo_read_memory(f, 65346), f.current_scan_line)]
       ELSE IF requested_state = "Window"
       THEN IF dbg /\ scan_line = 255 THEN fifo_abort(f)
            ELSE [f EXCEPT !.background_fifo = <<>>,
                           !.window_scan_line = (scan_line + 1) % 256,
                           !.background_window_fetcher =
                               new_window(window_tile_map_addr(lcdc), addressing_mode(lcdc),
                                          scan_line)]
       ELSE [f EXCEPT !.background_fifo = <<>>, !.background_window_fetcher = NoFetcher]

\* Oam::read_from_memory
read_from_memory(f, addr) ==
    [y_pos |-> fifo_read_memory(f, addr), x_pos |-> fifo_read_memory(f, addr + 1),
     tile_id |-> fifo_read_memory(f, addr + 2),
     flags |-> BitAnd(fifo_read_memory(f, addr + 3), 240)]

\* Oam::is_y_hitting over u8: the answer, and whether an addition it evaluates
\* overflows (&& does not evaluate its right side when the left side is false)
is_y_hitting_evaluating_both(oam, scan_line, height) ==
    LET line == scan_line + 16
        below == oam.y_pos <= line % 256
        bottom == oam.y_pos + height
    IN [hit |-> below /\ line % 256 < bottom % 256,
        overflow |-> line > 255 \/ bottom > 255]
is_y_hitting(oam, scan_line, height) ==
    LET line == scan_line + 16
        below == oam.y_pos <= line % 256
        bottom == oam.y_pos + height
    IN [hit |-> below /\ line % 256 < bottom % 256,
        overflow |-> line > 255 \/ (below /\ bottom > 255)]

\* the loop of PixelFIFO::find_oams from the entry at index on
RECURSIVE find_oams_from(_, _, _, _, _)
find_oams_from(f, index, objects, height, dbg) ==
    IF index = 40 THEN [objects |-> objects, abort |-> FALSE]
    ELSE LET oam == read_from_memory(f, 65024 + 4 * index)
             test == is_y_hitting(oam, f.current_scan_line, height)
             pushed == IF test.hit THEN Append(objects, oam) ELSE objects
         IN IF dbg /\ test.overflow THEN [objects |-> objects, abort |-> TRUE]
            ELSE IF Len(pushed) >= 10 THEN [objects |-> pushed, abort |-> FALSE]
            ELSE find_oams_from(f, index + 1, pushed, height, dbg)

\* PixelFIFO::find_oams
find_oams_unbounded(f, dbg) ==
    LET height == IF Bit(fifo_read_memory(f, 65344), 2) = 1 THEN 16 ELSE 8
        hits == SelectSeq([index \in 1..40 |-> read_from_memory(f, 65020 + 4 * index)],
                          LAMBDA oam : is_y_hitting(oam, f.current_scan_line, height).hit)
    IN [f EXCEPT !.oam_size = height, !.objects = f.objects \o hits]
find_oams(f, dbg) ==
    LET height == IF Bit(fifo_read_memory(f, 65344), 2) = 1 THEN 16 ELSE 8
        found == find_oams_from(f, 0, f.objects, height, dbg)
    IN IF found.abort THEN fifo_abort(f)
       ELSE [f EXCEPT !.oam_size = height, !.objects = found.objects]

\* Oam::get_pixels: the eight pixels, or an abort (u8 underflow with overflow
\* checks, unreachable!())
get_pixels(oam, f, in_oam_y, height, dbg) ==
    LET y_flip == Bit(oam.flags, 6) = 1
        flipped == IF y_flip THEN (height - 1 - in_oam_y + 256) % 256 ELSE in_oam_y
        underflow == y_flip /\ height - 1 < in_oam_y
        second == height = 16 /\ flipped >= 8
        real_tile_id == IF height = 8 THEN oam.tile_id
                        ELSE IF second THEN BitOr(oam.tile_id, 1)
                        ELSE oam.tile_id - (oam.tile_id % 2)
        in_tile_y == IF second THEN flipped - 8 ELSE flipped
        pixels == read_tile_pixels(f, real_tile_id, in_tile_y,
                                   OamPixel(0, Bit(oam.flags, 4), Bit(oam.flags, 7) = 1))
    IN IF (dbg /\ underflow) \/ (height = 16 /\ flipped >= 16)
       THEN [abort |-> TRUE, pixels |-> <<>>]
       ELSE [abort |-> FALSE,
             pixels |-> IF Bit(oam.flags, 5) = 1 THEN [i \in 1..8 |-> pixels[9 - i]]
                        ELSE pixels]

\* the loop `for oam in &self.objects` of fill_oam_fifo_if_needed
RECURSIVE overlay_objects(_, _, _, _)
overlay_objects(f, objects, oam_fifo, dbg) ==
    IF objects = <<>> THEN [oam_fifo |-> oam_fifo, abort |-> FALSE]
    ELSE LET oam == Head(objects)
             x == f.current_x + 8
             line == f.current_scan_line + 16
             in_oam_y == ((line % 256) - oam.y_pos + 256) % 256
             faults == line > 255 \/ line % 256 < oam.y_pos
             got == get_pixels(oam, f, in_oam_y, f.oam_size, dbg)
             laid == [i \in 1..Len(oam_fifo) |->
                         IF i <= 8 /\ oam_fifo[i].color = 0 THEN got.pixels[i]
                         ELSE oam_fifo[i]]
         IN IF dbg /\ x > 255 THEN [oam_fifo |-> oam_fifo, abort |-> TRUE]
            ELSE IF x % 256 # oam.x_pos THEN overlay_objects(f, Tail(objects), oam_fifo, dbg)
            ELSE IF (dbg /\ faults) \/ got.abort THEN [oam_fifo |-> oam_fifo, abort |-> TRUE]
            ELSE overlay_objects(f, Tail(objects), laid, dbg)

\* PixelFIFO::fill_oam_fifo_if_needed
fill_oam_fifo_if_needed(f, dbg) ==
    LET placeholder == OamPixel(0, 0, TRUE)
        resized == IF Len(f.oam_fifo) < 8
                   THEN [i \in 1..8 |-> IF i <= Len(f.oam_fifo) THEN f.oam_fifo[i]
                                        ELSE placeholder]
                   ELSE f.oam_fifo
        done == overlay_objects(f, f.objects, resized, dbg)
    IN IF done.abort THEN fifo_abort(f) ELSE [f EXCEPT !.oam_fifo = done.oam_fifo]

\* PixelFIFO::fill_background_fifo_if_needed
fill_background_fifo_never(f) == f
fill_background_fifo_if_needed(f) ==
    IF f.background_window_fetcher.kind # "None" /\ Len(f.background_fifo) < 8
    THEN LET fetched == fetcher_fetch_pixels(f.background_window_fetcher, f)
         IN [f EXCEPT !.background_window_fetcher = fetched.fetcher,
                      !.background_fifo = @ \o fetched.pixels]
    ELSE f

\* choose_pixel
choose_pixel_sprite_first(bg_pixel, oam_pixel, obj_enable) ==
    IF ~obj_enable \/ oam_pixel.color = 0 THEN bg_pixel ELSE oam_pixel
choose_pixel(bg_pixel, oam_pixel, obj_enable) ==
    IF ~obj_enable \/ oam_pixel.color = 0 THEN bg_pixel
    ELSE IF ~oam_pixel.bg_priority THEN oam_pixel
    ELSE IF bg_pixel.color # 0 THEN bg_pixel
    ELSE oam_pixel

\* PixelFIFO::begin_of_line
begin_of_line(f, scan_line) ==
    [f EXCEPT !.current_scan_line = scan_line, !.background_fifo = <<>>, !.oam_fifo = <<>>]

\* PixelFIFO::pop_first_pixels: pop_front on an empty queue returns None
RECURSIVE pop_first_pixels(_, _)
pop_first_pixels(fifo, n) ==
    IF n = 0 \/ fifo = <<>> THEN fifo ELSE pop_first_pixels(Tail(fifo), n - 1)

\* PixelFIFO::begin_lcd_transfer
begin_lcd_transfer(f, dbg) ==
    LET matched == match_fetcher_mode([f EXCEPT !.current_x = 0], dbg)
        filled == fill_background_fifo_if_needed(matched)
    IN IF matched.panicked THEN matched
       ELSE IF filled.background_window_fetcher.kind = "Background"
       THEN [filled EXCEPT !.background_fifo =
                               pop_first_pixels(@, fifo_read_memory(f, 65347) % 8)]
       ELSE filled

\* PixelFIFO::next_pixel: the FIFO afterwards, the pixel returned and the two
\* pixels it was chosen from; pop_front().unwrap() aborts on an empty queue
next_pixel(f, dbg) ==
    LET matched == match_fetcher_mode(f, dbg)
        active == matched.background_window_fetcher.kind # "None"
        filled == IF active THEN fill_background_fifo_if_needed(matched) ELSE matched
        empty == active /\ filled.background_fifo = <<>>
        background_pixel == IF active /\ ~empty THEN Head(filled.background_fifo)
                            ELSE BackgroundWindowPixel(0)
        popped == IF active /\ ~empty THEN [filled EXCEPT !.background_fifo = Tail(@)]
                  ELSE filled
        overlaid == fill_oam_fifo_if_needed(popped, dbg)
        oam_pixel == Head(overlaid.oam_fifo)
        obj_enable == Bit(fifo_read_memory(f, 65344), 1) = 1
        aborted == matched.panicked \/ empty \/ overlaid.panicked
                   \/ (dbg /\ f.current_x = 255)
    IN IF aborted
       THEN [fifo |-> fifo_abort(f), empty |-> empty, aborted |-> TRUE,
             background_pixel |-> background_pixel, oam_pixel |-> OamPixel(0, 0, TRUE),
             pixel |-> background_pixel]
       ELSE [fifo |-> [overlaid EXCEPT !.oam_fifo = Tail(@),
                                       !.current_x = (@ + 1) % 256],
             empty |-> FALSE, aborted |-> FALSE,
             background_pixel |-> background_pixel, oam_pixel |-> oam_pixel,
             pixel |-> choose_pixel(background_pixel, oam_pixel, obj_enable)]

\* PixelFIFO::end_of_line, PixelFIFO::end_of_frame
end_of_line(f) ==
    [f EXCEPT !.background_window_fetcher = NoFetcher, !.objects = <<>>,
              !.background_fifo = <<>>, !.oam_fifo = <<>>]
end_of_frame(f) == [f EXCEPT !.window_scan_line = NoLine]

-----------------------------------------------------------------------------
(* PixelFIFO actions: the calls the PPU makes on its pixel FIFO over a      *)
(* frame, and the program's writes to the LCD registers in between.         *)

MaxFifoFrames == 1
MaxRegWrites == 1

\* the sprite tables the program has set up: 40 entries of y, x, tile, flags
SpreadYs == <<0, 1, 9, 16, 17, 24, 100, 152, 159, 160, 240, 248, 255>>
SpreadXs == <<0, 8, 9, 100, 167, 168, 255, 12>>
SpreadFlags == <<0, 128, 64, 32, 16, 240>>
OamEntry(table, index) ==
    IF table = "spread"
    THEN <<SpreadYs[(index % 13) + 1], SpreadXs[(index % 8) + 1], index,
           SpreadFlags[(index % 6) + 1]>>
    ELSE <<16 + 4 * (index % 3), 8 + 8 * (index % 20), 2 * index + 1,
           SpreadFlags[(index % 6) + 1]>>
\* LCDC, SCX, SCY, WX, WY and the sprite table
FifoConfigs ==
    { <<145, 0, 0, 7, 0, "spread">>,
      <<183, 5, 3, 87, 2, "spread">>,
      <<247, 3, 250, 7, 0, "crowd">>,
      <<2, 0, 0, 7, 0, "crowd">>,
      <<179, 7, 0, 200, 0, "crowd">> }
FifoMemory(config) ==
    [addr \in {65344, 65347, 65346, 65355, 65354} \cup 65024..65183 |->
        CASE addr = 65344 -> config[1]
          [] addr = 65347 -> config[2]
          [] addr = 65346 -> config[3]
          [] addr = 65355 -> config[4]
          [] addr = 65354 -> config[5]
          [] OTHER -> OamEntry(config[6], (addr - 65024) \div 4)[((addr - 65024) % 4) + 1]]

\* the program's writes to WX and LCDC during the transfer of a scanline
RegWrites == { <<65355, 160>>, <<65344, 145>> }
WriteLines == {2}
WriteMoments == {100}

NoEmit == [emitted |-> FALSE]
FifoObsInit ==
    [phase |-> "begin_of_line",  \* the call the PPU makes next
     line |-> 0,                 \* LY
     frames |-> 0,
     pixels |-> 0,               \* calls of next_pixel on this scanline
     writes |-> 0,
     counter_at_line_start |-> 0,
     increase |-> 0,             \* by how much the window counter rose over the last scanline
     window_rendered |-> FALSE,  \* a pixel of the last scanline came from a window fetcher
     pop_empty |-> FALSE,        \* a pixel was taken from an empty background FIFO
     last |-> NoEmit]            \* the last call of next_pixel

window_counter(f) == IF f.window_scan_line = NoLine THEN 0 ELSE f.window_scan_line

\* dot 0 of a scanline
fifo_begin_of_line ==
    /\ ~pixel_fifo.panicked
    /\ fifo_obs.phase = "begin_of_line"
    /\ fifo_obs.frames < MaxFifoFrames
    /\ pixel_fifo' = begin_of_line(pixel_fifo, fifo_obs.line)
    /\ fifo_obs' = [fifo_obs EXCEPT !.phase = "end_of_oam_search", !.pixels = 0,
                                    !.counter_at_line_start = window_counter(pixel_fifo),
                                    !.window_rendered = FALSE, !.last = NoEmit]
    /\ UNCHANGED <<debug_assertions, hostVars, cpuVars, mmuVars, ppu, ppu_obs>>

\* dot 79: PixelFIFO::end_of_oam_search
fifo_end_of_oam_search ==
    /\ ~pixel_fifo.panicked
    /\ fifo_obs.phase = "end_of_oam_search"
    /\ pixel_fifo' = find_oams(pixel_fifo, debug_assertions)
    /\ fifo_obs' = [fifo_obs EXCEPT !.phase = "begin_lcd_transfer"]
    /\ UNCHANGED <<debug_assertions, hostVars, cpuVars, mmuVars, ppu, ppu_obs>>

\* dot 80
fifo_begin_lcd_transfer ==
    /\ ~pixel_fifo.panicked
    /\ fifo_obs.phase = "begin_lcd_transfer"
    /\ pixel_fifo' = begin_lcd_transfer(pixel_fifo, debug_assertions)
    /\ fifo_obs' = [fifo_obs EXCEPT !.phase = "next_pixel"]
    /\ UNCHANGED <<debug_assertions, hostVars, cpuVars, mmuVars, ppu, ppu_obs>>

\* dots 81..240
fifo_next_pixel ==
    /\ ~pixel_fifo.panicked
    /\ fifo_obs.phase = "next_pixel"
    /\ fifo_obs.pixels < SCREEN_WIDTH
    /\ \E r \in {next_pixel(pixel_fifo, debug_assertions)} :
         /\ pixel_fifo' = r.fifo
         /\ fifo_obs' = [fifo_obs EXCEPT
                !.pixels = @ + 1,
                !.pop_empty = @ \/ r.empty,
                !.window_rendered = @ \/ (~r.aborted
                                          /\ r.fifo.background_window_fetcher.kind = "Window"),
                !.last = [emitted |-> TRUE, aborted |-> r.aborted,
                          requested |-> current_requested_mode(pixel_fifo),
                          kind_before |-> pixel_fifo.background_window_fetcher.kind,
                          obj_enable |-> Bit(fifo_read_memory(pixel_fifo, 65344), 1) = 1,
                          background_pixel |-> r.background_pixel,
                          oam_pixel |-> r.oam_pixel, pixel |-> r.pixel]]
    /\ UNCHANGED <<debug_assertions, hostVars, cpuVars, mmuVars, ppu, ppu_obs>>

\* the start of HBlank: PixelFIFO::end_of_line
fifo_end_of_line ==
    /\ ~pixel_fifo.panicked
    /\ fifo_obs.phase = "next_pixel"
    /\ fifo_obs.pixels = SCREEN_WIDTH
    /\ pixel_fifo' = end_of_line(pixel_fifo)
    /\ fifo_obs' = [fifo_obs EXCEPT
           !.phase = IF fifo_obs.line + 1 = SCREEN_HEIGHT THEN "end_of_frame"
                     ELSE "begin_of_line",
           !.line = @ + 1,
           !.increase = window_counter(pixel_fifo) - fifo_obs.counter_at_line_start]
    /\ UNCHANGED <<debug_assertions, hostVars, cpuVars, mmuVars, ppu, ppu_obs>>

\* the first dot of scanline 144: PixelFIFO::end_of_frame
fifo_end_of_frame ==
    /\ ~pixel_fifo.panicked
    /\ fifo_obs.phase = "end_of_frame"
    /\ pixel_fifo' = end_of_frame(pixel_fifo)
    /\ fifo_obs' = [fifo_obs EXCEPT !.phase = "begin_of_line", !.line = 0, !.frames = @ + 1,
                                    !.increase = 0, !.window_rendered = FALSE]
    /\ UNCHANGED <<debug_assertions, hostVars, cpuVars, mmuVars, ppu, ppu_obs>>

\* the program writes an LCD register between two dots of the transfer
fifo_write_reg(addr, value) ==
    /\ ~pixel_fifo.panicked
    /\ fifo_obs.phase = "next_pixel"
    /\ fifo_obs.writes < MaxRegWrites
    /\ fifo_obs.line \in WriteLines
    /\ fifo_obs.pixels \in WriteMoments
    /\ pixel_fifo' = [pixel_fifo EXCEPT !.memory[addr] = value]
    /\ fifo_obs' = [fifo_obs EXCEPT !.writes = @ + 1]
    /\ UNCHANGED <<debug_assertions, hostVars, cpuVars, mmuVars, ppu, ppu_obs>>

-----------------------------------------------------------------------------
(* The emulation loop of the drivers: src/src/main.rs 133-136 runs           *)
(* cpu.step(); ppu.step(); for every machine cycle of a frame, and           *)
(* emu_thread::run (src/frontend/src/emu_thread.rs) runs the same pair for   *)
(* every machine cycle of elapsed time.                                      *)

\* the dots in a frame
DOTS_PER_FRAME == SCAN_LINE_COUNT * DOT_PER_LINE_COUNT

\* the position of the PPU in its frame, in dots
dot_position(p) == current_line(p) * DOT_PER_LINE_COUNT + p.current_dot_in_line

\* the dots from one PPU position to a later one less than a frame away
dots_between(before, after) ==
    (dot_position(after) - dot_position(before) + DOTS_PER_FRAME) % DOTS_PER_FRAME

EmuInit == [pc |-> "cpu", iterations |-> 0, micro_ops |-> 0, dots |-> 0,
            cpu_steps_since_ppu |-> 0]

MaxIterations == 8

HostInit == [is_ended |-> FALSE]

\* the first statement of the loop body: cpu.step()
loop_cpu_step_skipped ==
    /\ emu.pc = "cpu"
    /\ emu.iterations < MaxIterations
    /\ emu' = [emu EXCEPT !.pc = "ppu"]
    /\ UNCHANGED <<debug_assertions, cpuVars, mmuVars, ppuVars, host>>
loop_cpu_step ==
    /\ emu.pc = "cpu"
    /\ emu.iterations < MaxIterations
    /\ CPU_step
    /\ emu' = [emu EXCEPT !.pc = IF cpu_panicked' THEN "panicked" ELSE "ppu",
                          !.micro_ops = @ + obs'.ran,
                          !.cpu_steps_since_ppu = @ + 1]
    /\ UNCHANGED <<debug_assertions, irq, mmuVars, ppuVars, host>>

\* the second statement of the loop body: ppu.step()
loop_ppu_step ==
    /\ emu.pc = "ppu"
    /\ PPU_step
    /\ emu' = [emu EXCEPT !.pc = "cpu", !.iterations = @ + 1,
                          !.dots = @ + dots_between(ppu, ppu'),
                          !.cpu_steps_since_ppu = 0]
    /\ UNCHANGED <<debug_assertions, cpuVars, mmuVars, host>>

-----------------------------------------------------------------------------
(* The two threads of the frontend: emu_thread::run                          *)
(* (src/frontend/src/emu_thread.rs) and the host's event loop               *)
(* (src/frontend/src/main.rs 168-261).  They share the stop flag, the       *)
(* Mutex around the interrupt controller, the Mutex around the Display and  *)
(* the RwLock around the MMU.                                                *)
(* A frame is FrameCells cells holding the number of the frame they were    *)
(* drawn in, and a frame of the PPU lasts FrameSteps calls of PPU::step,    *)
(* the last of them in VBlank.                                               *)

FrameCells == 2
FrameSteps == 3
MaxPolls == 3
MaxHostEvents == 3
FREQUENCY == 1048576
NANOS_IN_SECOND == 1000000000
NANOS_IN_CYCLE == NANOS_IN_SECOND \div FREQUENCY
\* the nanoseconds found elapsed by one pass of the outer loop
ElapsedNanos == {0, 500, 1000, 2000}

EmuThreadInit ==
    [pc |-> "poll", iterations |-> 0, micro_ops |-> 0, dots |-> 0, cpu_steps_since_ppu |-> 0,
     nano_counter |-> 0,
     polls |-> 0,          \* passes of the outer loop so far
     cycle |-> 0,          \* PPU cycles run by the PPU step in progress
     phase |-> 0,          \* PPU steps into the frame
     frame_no |-> 0,       \* frames finished
     cell |-> 0,           \* cells copied by the push_frame in progress
     ended_at |-> "none"]  \* where the thread was when the process ended

HostThreadInit ==
    [is_ended |-> FALSE, pc |-> "idle", events |-> 0,
     itc_lock |-> "free", display_lock |-> "free",
     mmu_lock |-> "free",    \* the RwLock around the MMU: who holds it ("emu" writes, "host" reads)
     display |-> [i \in 1..FrameCells |-> 0],   \* Display::frame
     fb |-> [i \in 1..FrameCells |-> 0],        \* the host's framebuffer
     cell |-> 0,                                \* cells drawn by the draw_into_fb in progress
     overlapped |-> FALSE]   \* a copy and a draw, or two controller operations, overlapped

EmuEnded == {"returned", "panicked", "killed"}

\* Mutex::lock: the caller waits while the other thread holds the mutex
lock_ignoring_holder(holder) == TRUE
lock(holder) == holder \in {"free", "poisoned"}

\* lock().unwrap(): the thread that finds the mutex poisoned panics
unwrap(e, holder, pc) == [e EXCEPT !.pc = IF holder = "poisoned" THEN "panicked" ELSE pc]
locked(holder, thread) == IF holder = "poisoned" THEN holder ELSE thread

\* !is_ended.load(Ordering::Relaxed)
is_ended_never_seen(is_ended) == FALSE
is_ended_load(is_ended) == is_ended

\* the mode the PPU is in during a step of the frame
phase_mode(phase) == IF phase = FrameSteps - 1 THEN "VBlank" ELSE "OAMSearch"

\* the end of one iteration of the inner loop: nano_counter -= NANOS_IN_CYCLE
end_iteration(e) ==
    [e EXCEPT !.pc = "inner", !.nano_counter = @ - NANOS_IN_CYCLE, !.iterations = @ + 1,
              !.cpu_steps_since_ppu = 0, !.cycle = 0,
              !.phase = (@ + 1) % FrameSteps,
              !.frame_no = IF e.phase = FrameSteps - 1 THEN @ + 1 ELSE @]

\* while !is_ended.load(Ordering::Relaxed): the elapsed time is added to
\* nano_counter, and assert_eq!(elapsed.as_secs(), 0) aborts the thread when a
\* second or more went by
emu_poll ==
    /\ emu.pc = "poll"
    /\ IF is_ended_load(host.is_ended)
       THEN emu' = [emu EXCEPT !.pc = "returned"]
       ELSE /\ emu.polls < MaxPolls
            /\ \/ \E elapsed \in ElapsedNanos :
                     emu' = [emu EXCEPT !.pc = "inner", !.polls = @ + 1,
                                        !.nano_counter = @ + elapsed]
               \/ emu' = [emu EXCEPT !.pc = "panicked"]
    /\ UNCHANGED <<debug_assertions, cpuVars, mmuVars, ppuVars, host>>

\* while nano_counter >= NANOS_IN_CYCLE
emu_inner ==
    /\ emu.pc = "inner"
    /\ emu' = [emu EXCEPT !.pc = IF emu.nano_counter >= NANOS_IN_CYCLE THEN "cpu" ELSE "poll"]
    /\ UNCHANGED <<debug_assertions, cpuVars, mmuVars, ppuVars, host>>

\* the CPU step of the iteration takes the controller's lock to poll it
emu_cpu_lock ==
    /\ emu.pc = "cpu"
    /\ lock(host.itc_lock)
    /\ host' = [host EXCEPT !.itc_lock = locked(@, "emu"),
                            !.overlapped = @ \/ host.pc \in {"about_to_wait", "key"}]
    /\ emu' = unwrap(emu, host.itc_lock, "cpu_itc")
    /\ UNCHANGED <<debug_assertions, cpuVars, mmuVars, ppuVars>>

\* the poll of the controller, after which the guard is dropped and the
\* micro-op runs
emu_cpu_step ==
    /\ emu.pc = "cpu_itc"
    /\ mmu' = [mmu EXCEPT !.interrupt_controller = handle_new_interrupt(@).ic]
    /\ host' = [host EXCEPT !.itc_lock = "free"]
    /\ emu' = [emu EXCEPT !.pc = "mem", !.micro_ops = @ + 1, !.cpu_steps_since_ppu = @ + 1]
    /\ UNCHANGED <<debug_assertions, cpuVars, mmu_obs, ppuVars>>

\* Arc<RwLock<M>>::write_memory: self.write().unwrap() for the store of the
\* micro-op, to work RAM or to a register the interrupt controller holds
\* (reads take the lock shared and make no thread wait for the other's reads)
emu_mem_lock ==
    /\ emu.pc = "mem"
    /\ lock(host.mmu_lock)
    /\ \E io \in BOOLEAN :
          /\ host' = [host EXCEPT !.mmu_lock = locked(@, "emu"),
                                  !.overlapped = @ \/ host.pc = "tiles"]
          /\ emu' = unwrap(emu, host.mmu_lock, IF io THEN "mem_io" ELSE "mem_mmu")
    /\ UNCHANGED <<debug_assertions, cpuVars, mmuVars, ppuVars>>

\* MMU::write_memory to work RAM; the guard is dropped at the end of the statement
emu_mem_access ==
    /\ emu.pc = "mem_mmu"
    /\ mmu' = write_memory(mmu, 49152, 0, debug_assertions)
    /\ host' = [host EXCEPT !.mmu_lock = "free"]
    /\ emu' = [emu EXCEPT !.pc = "ppu"]
    /\ UNCHANGED <<debug_assertions, cpuVars, mmu_obs, ppuVars>>

\* MMU::write_io_reg: self.interrupt_controller.lock().unwrap(), with the write
\* guard of the MMU held; a panic here poisons the RwLock as well
emu_mem_itc_lock ==
    /\ emu.pc = "mem_io"
    /\ lock(host.itc_lock)
    /\ host' = [host EXCEPT !.itc_lock = locked(@, "emu"),
                            !.mmu_lock = IF host.itc_lock = "poisoned" THEN "poisoned" ELSE @,
                            !.overlapped = @ \/ host.pc \in {"about_to_wait", "key"}]
    /\ emu' = unwrap(emu, host.itc_lock, "mem_itc")
    /\ UNCHANGED <<debug_assertions, cpuVars, mmuVars, ppuVars>>

\* MMU::write_io_reg (TIMER_MODULO_ADDR arm): the controller's guard is dropped
\* at the end of the statement, the MMU's when write_memory returns
emu_mem_io_reg ==
    /\ emu.pc = "mem_itc"
    /\ mmu' = write_io_reg(mmu, 65286, 0)
    /\ host' = [host EXCEPT !.itc_lock = "free", !.mmu_lock = "free"]
    /\ emu' = [emu EXCEPT !.pc = "ppu"]
    /\ UNCHANGED <<debug_assertions, cpuVars, mmu_obs, ppuVars>>

\* PPU::cycle: self.interrupt_controller.lock().unwrap()
emu_ppu_lock ==
    /\ emu.pc = "ppu"
    /\ lock(host.itc_lock)
    /\ host' = [host EXCEPT !.itc_lock = locked(@, "emu"),
                            !.overlapped = @ \/ host.pc \in {"about_to_wait", "key"}]
    /\ emu' = unwrap(emu, host.itc_lock, "ppu_itc")
    /\ UNCHANGED <<debug_assertions, cpuVars, mmuVars, ppuVars>>

\* PPU::cycle: .ppu_mode_update(current_mode), the guard dropped at the end of
\* the statement; after the fourth cycle of the first step of a frame the frame
\* just finished is pushed to the Display
emu_ppu_cycle ==
    /\ emu.pc = "ppu_itc"
    /\ mmu' = [mmu EXCEPT !.interrupt_controller =
                  ppu_mode_update(@, phase_mode(emu.phase), <<emu.phase, emu.cycle>>)]
    /\ host' = [host EXCEPT !.itc_lock = "free"]
    /\ emu' = IF emu.cycle < 3
              THEN [emu EXCEPT !.pc = "ppu", !.cycle = @ + 1, !.dots = @ + 1]
              ELSE IF emu.phase = 0 /\ emu.frame_no > 0
              THEN [emu EXCEPT !.pc = "push", !.dots = @ + 1]
              ELSE end_iteration([emu EXCEPT !.dots = @ + 1])
    /\ UNCHANGED <<debug_assertions, cpuVars, mmu_obs, ppuVars>>

\* display.lock().unwrap() before push_frame
emu_push_lock ==
    /\ emu.pc = "push"
    /\ lock(host.display_lock)
    /\ host' = [host EXCEPT !.display_lock = "emu",
                            !.overlapped = @ \/ host.pc = "draw"]
    /\ emu' = [emu EXCEPT !.pc = "push_frame", !.cell = 0]
    /\ UNCHANGED <<debug_assertions, cpuVars, mmuVars, ppuVars>>

\* Display::push_frame: self.frame.copy_from_slice(frame), cell after cell
push_frame ==
    /\ emu.pc = "push_frame"
    /\ LET cell == emu.cell + 1
           last == cell = FrameCells
       IN /\ host' = [host EXCEPT !.display[cell] = emu.frame_no,
                                  !.display_lock = IF last THEN "free" ELSE @]
          /\ emu' = IF last THEN end_iteration(emu) ELSE [emu EXCEPT !.cell = cell]
    /\ UNCHANGED <<debug_assertions, cpuVars, mmuVars, ppuVars>>

\* Event::WindowEvent RedrawRequested: display.lock().unwrap()
host_redraw_requested ==
    /\ host.pc = "idle"
    /\ host.events < MaxHostEvents
    /\ lock(host.display_lock)
    /\ host' = [host EXCEPT !.pc = "draw", !.display_lock = "host", !.cell = 0,
                            !.events = @ + 1,
                            !.overlapped = @ \/ emu.pc = "push_frame"]
    /\ UNCHANGED <<debug_assertions, cpuVars, mmuVars, ppuVars, emu>>

\* Display::draw_into_fb, cell after cell; the guard is dropped at the end of
\* the statement
draw_into_fb ==
    /\ host.pc = "draw"
    /\ LET cell == host.cell + 1
           last == cell = FrameCells
       IN host' = [host EXCEPT !.fb[cell] = host.display[cell], !.cell = cell,
                               !.pc = IF last THEN "idle" ELSE @,
                               !.display_lock = IF last THEN "free" ELSE @]
    /\ UNCHANGED <<debug_assertions, cpuVars, mmuVars, ppuVars, emu>>

\* RedrawRequested of the tiles window: Display::draw_tiles_into_fb(&memory, ..)
\* reads VRAM through Arc<RwLock<M>>::read_memory, self.read().unwrap() per byte
host_redraw_tiles ==
    /\ host.pc = "idle"
    /\ host.events < MaxHostEvents
    /\ lock(host.mmu_lock)
    /\ host' = [host EXCEPT !.pc = IF host.mmu_lock = "poisoned" THEN "panicked" ELSE "tiles",
                            !.mmu_lock = locked(@, "host"),
                            !.events = @ + 1,
                            !.overlapped = @ \/ emu.pc \in {"mem_mmu", "mem_io", "mem_itc"}]
    /\ UNCHANGED <<debug_assertions, cpuVars, mmuVars, ppuVars, emu>>

\* the read of the byte; the guard is dropped at the end of the statement
draw_tiles_into_fb ==
    /\ host.pc = "tiles"
    /\ host' = [host EXCEPT !.pc = IF read_memory(mmu, 32768, debug_assertions) = Aborted
                                   THEN "panicked" ELSE "idle",
                            !.mmu_lock = IF read_memory(mmu, 32768, debug_assertions) = Aborted
                                         THEN "poisoned" ELSE "free"]
    /\ UNCHANGED <<debug_assertions, cpuVars, mmuVars, ppuVars, emu>>

\* Event::AboutToWait: let mut int_cont = interrupt_controller.lock().unwrap()
host_about_to_wait ==
    /\ host.pc = "idle"
    /\ host.events < MaxHostEvents
    /\ lock(host.itc_lock)
    /\ host' = [host EXCEPT !.pc = "about_to_wait", !.itc_lock = "host", !.events = @ + 1,
                            !.overlapped = @ \/ emu.pc \in {"cpu_itc", "ppu_itc", "mem_itc"}]
    /\ UNCHANGED <<debug_assertions, cpuVars, mmuVars, ppuVars, emu>>

\* if int_cont.should_redraw { request_redraw(); int_cont.should_redraw = false }
host_should_redraw_keeping_guard ==
    /\ host.pc = "about_to_wait"
    /\ mmu' = [mmu EXCEPT !.interrupt_controller.should_redraw = FALSE]
    /\ host' = [host EXCEPT !.pc = "idle"]
    /\ UNCHANGED <<debug_assertions, cpuVars, mmu_obs, ppuVars, emu>>
host_should_redraw ==
    /\ host.pc = "about_to_wait"
    /\ mmu' = [mmu EXCEPT !.interrupt_controller.should_redraw = FALSE]
    /\ host' = [host EXCEPT !.pc = "idle", !.itc_lock = "free"]
    /\ UNCHANGED <<debug_assertions, cpuVars, mmu_obs, ppuVars, emu>>

\* Event::WindowEvent KeyboardInput: let mut int = interrupt_controller.lock().unwrap()
host_keyboard_input ==
    /\ host.pc = "idle"
    /\ host.events < MaxHostEvents
    /\ lock(host.itc_lock)
    /\ host' = [host EXCEPT !.pc = "key", !.itc_lock = "host", !.events = @ + 1,
                            !.overlapped = @ \/ emu.pc \in {"cpu_itc", "ppu_itc", "mem_itc"}]
    /\ UNCHANGED <<debug_assertions, cpuVars, mmuVars, ppuVars, emu>>

\* int.change_key_state(key, pressed): the todo!() it ends in unwinds the main
\* thread with the guard held, which poisons the mutex
host_change_key_state ==
    /\ host.pc = "key"
    /\ \E key \in {"A", "Start"}, pressed \in BOOLEAN :
       \E r \in {change_key_state(mmu.interrupt_controller, key, pressed)} :
          /\ mmu' = [mmu EXCEPT !.interrupt_controller = r.ic]
          /\ host' = [host EXCEPT !.pc = IF r.abort THEN "panicked" ELSE "idle",
                                  !.itc_lock = IF r.abort THEN "poisoned" ELSE "free"]
    /\ UNCHANGED <<debug_assertions, cpuVars, mmu_obs, ppuVars, emu>>

\* Event::LoopExiting: is_ended.store(true, Ordering::Relaxed)
host_loop_exiting ==
    /\ host.pc = "idle"
    /\ host' = [host EXCEPT !.pc = "exiting", !.is_ended = TRUE]
    /\ UNCHANGED <<debug_assertions, cpuVars, mmuVars, ppuVars, emu>>

\* main returns (or unwinds) without joining the emulation thread: the process
\* ends and the thread with it, wherever it is
process_exit ==
    /\ host.pc \in {"exiting", "panicked"}
    /\ host' = [host EXCEPT !.pc = "exited"]
    /\ emu' = IF emu.pc \in EmuEnded THEN emu
              ELSE [emu EXCEPT !.pc = "killed", !.ended_at = emu.pc]
    /\ UNCHANGED <<debug_assertions, cpuVars, mmuVars, ppuVars>>

emu_thread_run ==
    \/ emu_poll \/ emu_inner \/ emu_cpu_lock \/ emu_cpu_step
    \/ emu_mem_lock \/ emu_mem_access \/ emu_mem_itc_lock \/ emu_mem_io_reg
    \/ emu_ppu_lock \/ emu_ppu_cycle \/ emu_push_lock \/ push_frame

\* the steps by which a handler of the event loop that holds a guard runs to
\* its end, and the end of the process after the loop has exited
host_handler_run ==
    \/ draw_into_fb \/ draw_tiles_into_fb \/ host_should_redraw \/ host_change_key_state
    \/ process_exit

-----------------------------------------------------------------------------
(* Properties of the CPU (SpecCPU) *)

\* step() has returned at least once for the instruction in flight
Stepped == obs.instr_count > 0 /\ ~cpu_panicked /\ obs.steps > 0
\* the instruction in flight has run all its micro-ops
Completed == Stepped /\ pipeline = <<>>

\* C1: after every micro-op the low four bits of F are zero, also after POP AF
\* and after any 8-bit store into F.
C1_FlagsLowNibbleZero == cpu.flags % 16 = 0

\* a micro-op has stored into F a byte whose low nibble was not zero
C1_Witness ==
    /\ obs.last_op = "ReadMem"
    /\ obs.flags_in % 16 # 0
    /\ cpu.flags = obs.flags_in - (obs.flags_in % 16)

\* C6 as stated: when an instruction has completed, PC is the fetch PC plus the
\* instruction's byte length exactly when no jump, call, return or restart was taken.
C6_FallThroughIffNoJump ==
    Completed => ((cpu.pc = U16v(obs.fetch_pc + obs.len)) <=> ~obs.jumped)

\* C6 amended: when an instruction has completed without a taken jump, call, return
\* or restart, PC is the fetch PC plus the instruction's byte length (modulo 2^16);
\* a taken jump may land on that same address, so the converse does not hold.
C6_NoJumpFallsThrough ==
    (Completed /\ ~obs.jumped) => cpu.pc = U16v(obs.fetch_pc + obs.len)

\* a three-byte instruction has completed without jumping
C6_Witness ==
    /\ Completed
    /\ ~obs.jumped
    /\ obs.len = 3
    /\ cpu.pc = obs.fetch_pc + 3

\* C7: every step() call that returns executes exactly one micro-op: it refills the
\* pipeline when empty and pops exactly one micro-op from its front.
C7_OneMicroOpPerStep ==
    Stepped => /\ obs.ran = 1
               /\ obs.len_before >= 1
               /\ Len(pipeline) = obs.len_before - 1 + obs.prepended

\* the step that refilled the pipeline with a six-micro-op instruction ran one of them
C7_Witness ==
    /\ Stepped
    /\ obs.steps = 1
    /\ obs.len_before = 6
    /\ Len(pipeline) = 5

\* C8: JP NZ,nn (opcode 0xC2) with Z set takes three steps and leaves PC at the
\* fetch PC plus 3; with Z clear it takes four steps and leaves PC at nn.
JP_NZ == 194
C8_JumpNotZero ==
    (Stepped /\ obs.opcode = JP_NZ) =>
        LET z == contains(obs.flags_at_fetch, ZERO)
        IN /\ (pipeline = <<>>) <=> (obs.steps = IF z THEN 3 ELSE 4)
           /\ pipeline = <<>> => cpu.pc = IF z THEN U16v(obs.fetch_pc + 3) ELSE obs.operand

\* JP NZ,nn has completed with Z set
C8_Witness ==
    /\ Completed
    /\ obs.opcode = JP_NZ
    /\ contains(obs.flags_at_fetch, ZERO)
    /\ obs.steps = 3
    /\ cpu.pc = obs.fetch_pc + 3

\* the opcodes C9 speaks of
LD_r_r == {b \in 64..127 : b % 8 # 6 /\ b \div 8 # 14}
LD_r_n == {6, 14, 22, 30, 38, 46, 62}
LD_r_HL == {70, 78, 86, 94, 102, 110, 126}
JP_nn == 195
CALL_nn == 205
CALL_cc == {196, 204, 212, 220}

\* whether the condition of CALL cc,nn holds for the flags
CallTaken(opcode, flags) ==
    CASE opcode = 196 -> ~contains(flags, ZERO)
      [] opcode = 204 -> contains(flags, ZERO)
      [] opcode = 212 -> ~contains(flags, CARRY)
      [] opcode = 220 -> contains(flags, CARRY)

C9_Steps(opcode, flags) ==
    CASE opcode \in LD_r_r -> 1
      [] opcode \in LD_r_n \cup LD_r_HL -> 2
      [] opcode = JP_nn -> 4
      [] opcode = CALL_nn -> 6
      [] opcode \in CALL_cc -> IF CallTaken(opcode, flags) THEN 6 ELSE 3

\* C9: LD r,r takes 1 step; LD r,n and LD r,(HL) take 2; JP nn takes 4; CALL nn
\* takes 6; a conditional CALL takes 6 when taken and 3 when not.
C9_StepCounts ==
    (Stepped /\ obs.opcode \in LD_r_r \cup LD_r_n \cup LD_r_HL \cup {JP_nn, CALL_nn} \cup CALL_cc)
        => ((pipeline = <<>>) <=> (obs.steps = C9_Steps(obs.opcode, obs.flags_at_fetch)))

\* CALL nn has completed, on its sixth step
C9_Witness ==
    /\ Completed
    /\ obs.opcode = CALL_nn
    /\ obs.steps = 6
    /\ cpu.pc = obs.operand

\* the bytes that are not opcodes of the SM83 main table
NotSm83Opcodes == {211, 219, 221, 227, 228, 235, 236, 237, 244, 252, 253}

\* C18: every opcode of the SM83 table, with any operand bytes, decodes to an
\* instruction; only the bytes that are not SM83 opcodes abort the decoder.
C18_EverySm83OpcodeDecodes ==
    (obs.instr_count > 0 /\ obs.opcode \notin NotSm83Opcodes) =>
        decode_instruction(obs.opcode, obs.operand % 256, obs.operand \div 256).instr.i
            # "Panic"

\* C25: PC and SP stay within 0..0xFFFF and 16-bit arithmetic on them wraps
\* without faulting: a fetch at PC = 0xFFFF leaves PC = 0x0000 (here for NOP),
\* and the 16-bit store LD (0xFFFF),SP places its second byte at 0x0000.
C25_PcSpWrapWithoutFault ==
    /\ cpu.pc \in 0..65535
    /\ cpu.sp \in 0..65535
    /\ (obs.instr_count > 0 /\ obs.opcode = 0 /\ obs.fetch_pc = 65535) =>
          ~cpu_panicked /\ cpu.pc = 0
    /\ (obs.instr_count > 0 /\ obs.opcode = 8 /\ obs.operand = 65535) =>
          /\ ~cpu_panicked
          /\ obs.steps = 5 =>
                /\ 0 \in DOMAIN memory /\ memory[0] = cpu.sp \div 256
                /\ 65535 \in DOMAIN memory /\ memory[65535] = cpu.sp % 256

\* the register a CB-prefixed opcode names in its low three bits
BitRegister(k) ==
    CASE k = 0 -> "reg_b" [] k = 1 -> "reg_c" [] k = 2 -> "reg_d" [] k = 3 -> "reg_e"
      [] k = 4 -> "reg_h" [] k = 5 -> "reg_l" [] k = 7 -> "reg_a"

\* C26: for every register r, bit index b and prior flags, the step that runs
\* BIT b,r sets Z iff bit b of r is 0, clears N, sets H, keeps C, and leaves r
\* (and every other register) unchanged.
C26_BitTestFlags ==
    [][(/\ obs'.instr_count = obs.instr_count
        /\ obs.opcode = 203
        /\ (obs.operand % 256) \in BitTestOpcodes
        /\ (obs.operand % 256) % 8 # 6
        /\ obs.steps = 1
        /\ obs'.steps = 2) =>
           LET b == ((obs.operand % 256) \div 8) % 8
               r == BitRegister((obs.operand % 256) % 8)
           IN /\ ~cpu_panicked'
              /\ Bit(cpu'.flags, 7) = 1 - Bit(cpu[r], b)
              /\ Bit(cpu'.flags, 6) = 0
              /\ Bit(cpu'.flags, 5) = 1
              /\ Bit(cpu'.flags, 4) = Bit(cpu.flags, 4)
              /\ cpu'.flags % 16 = 0
              /\ [cpu' EXCEPT !.flags = 0] = [cpu EXCEPT !.flags = 0]]_vars
C26_Witness ==
    /\ obs.opcode = 203
    /\ obs.operand % 256 = 127
    /\ obs.steps = 2
    /\ obs.instr_count = 2
    /\ cpu.reg_a = 90
    /\ cpu.flags = 176
    /\ obs.flags_at_fetch = 48

\* C31: for every SP and every signed offset e in -128..127, ADD SP,e and
\* LD HL,SP+e produce (SP + e) mod 65536 without faulting, clear Z and N, and set
\* H and C from the carries out of bit 3 and bit 7 of the addition of the low
\* byte of SP and the unsigned byte of e.
C31_AddSignedOffset ==
    [][(/\ ~cpu_panicked
        /\ pipeline # <<>>
        /\ Head(pipeline).op = "AddOffsetToReg16IntoReg16"
        /\ Head(pipeline).update_flags) =>
           LET e == Head(pipeline).offset
               byte == (e + 256) % 256
               low == cpu.sp % 256
               half == IF (low % 16) + (byte % 16) > 15 THEN HALF_CARRY ELSE 0
               carry == IF low + byte > 255 THEN CARRY ELSE 0
           IN /\ ~cpu_panicked'
              /\ load_reg16(cpu', Head(pipeline).dest) = (cpu.sp + e + 65536) % 65536
              /\ cpu'.flags = half + carry]_vars

-----------------------------------------------------------------------------
(* Claims about the MMU *)

ECHO == 57344..65023
UNUSABLE == 65184..65279
LastWriteAddr == IF mmu_obs.last_write = <<>> THEN NoAddr ELSE mmu_obs.last_write[1]

\* C2: for every A in E000..FDFF and byte b, after writing b to A a read of
\* A - 0x2000 returns b, and after writing b to A - 0x2000 a read of A returns b.
C2_EchoAliasesWorkRam ==
    (mmu_obs.last_write # <<>> /\ ~mmu.panicked) =>
        LET A == mmu_obs.last_write[1]
            b == mmu_obs.last_write[2]
        IN /\ A \in ECHO => read_memory(mmu, A - 8192, debug_assertions) = b
           /\ A + 8192 \in ECHO => read_memory(mmu, A + 8192, debug_assertions) = b

\* C3: after any sequence of writes, a read of any address in FEA0..FEFF returns 0xFF.
C3_UnusableReadsFF ==
    ~mmu.panicked => \A A \in UNUSABLE : read_memory(mmu, A, debug_assertions) = 255
C3_Witness ==
    /\ mmu_obs.writes = MaxWrites
    /\ LastWriteAddr \in UNUSABLE
    /\ mmu_obs.last_write[2] # 255
    /\ ~mmu.panicked

\* C10: no MMU read or write aborts the emulator, in any reachable MMU and
\* cartridge state; the one abort allowed for is the write that selects the
\* unimplemented MBC1 banking mode 1 (a nonzero value written to 6000..7FFF).
C10_NeverAborts ==
    mmu.panicked => (LastWriteAddr \in 24576..32767 /\ mmu_obs.last_write[2] # 0)

\* C5 (as stated): when an OAM DMA completes, FE00..FE9F hold what H00..H9F held
\* when the DMA was started.
C5_OamEqualsSourceAtStart ==
    mmu_obs.completed =>
        \A offset \in 0..(DMA_LENGTH - 1) : Get(mmu.oam, offset) = mmu_obs.src_at_start[offset]

\* C5 (amended): an OAM DMA completes at the 160th tick after the write that
\* started it and not before, and FE00..FE9F then hold what reads of H00..H9F
\* return at that tick.
C5_OamEqualsSourceAtCopy ==
    /\ mmu.waiting_dma.pending =>
           /\ mmu_obs.dma_ticks < DMA_LENGTH
           /\ mmu.waiting_dma.timer = DMA_LENGTH - mmu_obs.dma_ticks
    /\ mmu_obs.completed =>
           /\ mmu_obs.dma_ticks = DMA_LENGTH
           /\ \A offset \in 0..(DMA_LENGTH - 1) :
                  Get(mmu.oam, offset) = mmu_obs.src_at_copy[offset]
C5_Witness ==
    /\ mmu_obs.completed
    /\ mmu_obs.src_at_copy # mmu_obs.src_at_start
    /\ Get(mmu.oam, 0) = 34
    /\ Get(mmu.oam, 159) = 51

\* C11: after any sequence of writes to an MBC1 cartridge the bank served in the
\* switchable window 4000-7FFF is never bank 0, and a write of 0 to 2000-3FFF
\* selects bank 1.
C11_SwitchableBankNeverZero ==
    (mmu.mbc.kind = "MBC1" /\ ~mmu.panicked) =>
        /\ \A addr \in {16384, 32767} :
               /\ switchable_rom_index(mmu.mbc, addr) \div BANK_SIZE # 0
               /\ read_memory(mmu, addr, debug_assertions)
                      # RomByte(addr - 16384)
        /\ (LastWriteAddr \in 8192..16383 /\ mmu_obs.last_write[2] = 0) =>
               /\ mmu.mbc.bank_index = 1
               /\ read_memory(mmu, 16384, debug_assertions) = RomByte(BANK_SIZE)
C11_Witness ==
    /\ mmu.mbc.kind = "MBC1"
    /\ mmu_obs.writes = 2
    /\ mmu_obs.last_write = <<8192, 0>>
    /\ mmu.mbc.bank_index = 1
    /\ ~mmu.panicked

\* C12: the bytes the serial sink has received are, in program order, the value
\* held in FF01 at each write of 0x81 to FF02; no other write emits a byte.
C12_SerialSinkReceives ==
    ~mmu.panicked => mmu.serial = mmu_obs.expected
C12_Witness ==
    /\ mmu.serial = <<65, 129>>
    /\ mmu_obs.writes = 4
    /\ ~mmu.panicked

\* C17: reads of 0000-00FF return boot-ROM bytes while FF50 has only ever been
\* written with zero, and cartridge bytes ever after the first write of a
\* nonzero value to FF50, whatever is written later.
C17_OverlayStaysUnmounted ==
    ~mmu.panicked =>
        \A addr \in {0, 255} :
            read_memory(mmu, addr, debug_assertions) =
                IF mmu_obs.unmounted THEN mbc_read_memory(mmu.mbc, addr)
                ELSE bootstrap_rom(addr)

\* whether the last write reached the cartridge controller in lo..hi (a write
\* below 0x0100 reaches it only once the boot ROM is unmounted)
LastWriteReachedCartridge(lo, hi) ==
    /\ LastWriteAddr \in lo..hi
    /\ LastWriteAddr \in 0..255 => mmu_obs.unmounted

\* C27: for every byte v written to 2000-3FFF of an MBC1 cartridge, reads of
\* 4000-7FFF afterwards serve the ROM bank (v & 0x1F) modulo the bank count,
\* incremented by 1 if its low nibble is zero.
C27_BankSelect ==
    (mmu.mbc.kind = "MBC1" /\ ~mmu.panicked /\ LastWriteReachedCartridge(8192, 16383)) =>
        LET v == mmu_obs.last_write[2]
            masked == (v % 32) % mmu.mbc.bank_count
            bank == IF masked % 16 = 0 THEN masked + 1 ELSE masked
        IN \A addr \in {16384, 32767} :
               read_memory(mmu, addr, debug_assertions)
                   = RomByte(bank * BANK_SIZE + (addr - 16384))

\* C28: for every byte v written to 0000-1FFF of an MBC1 cartridge, cartridge
\* RAM is enabled afterwards iff (v & 0x0F) = 0x0A; while RAM is disabled reads
\* of A000-BFFF return 0xFF and writes there leave RAM unchanged, and while it
\* is enabled a read returns the last byte written at that address in the
\* selected RAM bank.
C28_RamEnable ==
    (mmu.mbc.kind = "MBC1" /\ ~mmu.panicked) =>
        /\ LastWriteReachedCartridge(0, 8191) =>
               (mmu.mbc.ram_enabled <=> (mmu_obs.last_write[2] % 16 = 10))
        /\ \A addr \in {40960, 49151} :
               read_memory(mmu, addr, debug_assertions)
                   = IF mmu.mbc.ram_enabled
                     THEN Get(mmu_obs.cart_ram, <<mmu.mbc.ram_index, addr>>)
                     ELSE 255
        /\ \A cell \in DOMAIN mmu_obs.cart_ram :
               Get(mmu.mbc.ram, cell[1] * BANK_SIZE + (cell[2] - 40960))
                   = mmu_obs.cart_ram[cell]
        /\ Cardinality(DOMAIN mmu.mbc.ram) = Cardinality(DOMAIN mmu_obs.cart_ram)

\* C29: for a cartridge without controller, once the boot ROM is unmounted
\* every read of 0000-7FFF returns the ROM byte at that address, and no write
\* changes the cartridge.
C29_NoMbcServesRom ==
    (mmu.mbc.kind = "Simple" /\ ~mmu.panicked) =>
        /\ mmu.mbc = SimpleMBC
        /\ mmu_obs.unmounted =>
               \A addr \in {0, 255, 256, 16384, 32767} :
                   read_memory(mmu, addr, debug_assertions) = RomByte(addr)

\* C36: while an OAM DMA is pending its countdown is between 1 and 160; a tick
\* decrements it exactly once; the copy is performed on the tick that brings it
\* to 0 and on no other tick, OAM not being modified by the DMA before that
\* tick; the countdown is never decremented below 0 (a tick without a pending
\* DMA changes nothing).
C36_DmaCountdown ==
    [][/\ mmu.waiting_dma.pending => mmu.waiting_dma.timer \in 1..DMA_LENGTH
       /\ ~mmu.waiting_dma.pending => mmu.waiting_dma.timer = 0
       /\ (mmu_obs'.dma_ticks = mmu_obs.dma_ticks + 1 /\ ~mmu'.panicked) =>
              IF mmu.waiting_dma.timer > 1
              THEN /\ mmu'.waiting_dma.pending
                   /\ mmu'.waiting_dma.timer = mmu.waiting_dma.timer - 1
                   /\ mmu'.oam = mmu.oam
              ELSE /\ ~mmu'.waiting_dma.pending
                   /\ mmu'.waiting_dma.timer = 0
                   /\ \A offset \in 0..(DMA_LENGTH - 1) :
                          Get(mmu'.oam, offset) = mmu_obs'.src_at_copy[offset]
       /\ (mmu_obs'.dma_ticks = mmu_obs.dma_ticks /\ mmu_obs'.writes = mmu_obs.writes) =>
              mmu' = mmu
      ]_vars
C36_Witness ==
    /\ mmu_obs.completed
    /\ mmu_obs.dma_ticks = DMA_LENGTH
    /\ ~mmu.waiting_dma.pending
    /\ mmu.waiting_dma.timer = 0
    /\ Get(mmu.oam, 0) = 17
    /\ Get(mmu.oam, 159) = 51

\* C37: a write to FF46 while an OAM DMA is already pending changes neither the
\* pending transfer's source page nor its remaining countdown, and the pending
\* transfer still completes exactly 160 ticks after it was started.
C37_SecondDmaWriteIgnored ==
    /\ mmu.waiting_dma.pending =>
           /\ mmu.waiting_dma.high_byte_addr = mmu_obs.started_page
           /\ mmu.waiting_dma.timer = DMA_LENGTH - mmu_obs.dma_ticks
    /\ mmu_obs.completed => mmu_obs.dma_ticks = DMA_LENGTH
C37_Witness ==
    /\ mmu_obs.completed
    /\ mmu_obs.rewritten
    /\ mmu_obs.started_page = 192
    /\ Get(mmu.io_regs, 70) = 208
    /\ mmu_obs.dma_ticks = DMA_LENGTH
    /\ Get(mmu.oam, 0) = 17

-----------------------------------------------------------------------------
(* Claims about the PPU *)

\* C4: in every frame LY takes the values 0, 1, ..., 153 once each, in that
\* order, before it wraps to 0, and exactly one VBlank interrupt is triggered
\* per frame, on the first dot of scanline 144.
C4_LyOrderAndOneVBlank ==
    LET ly == current_line(ppu)
        log == ppu.interrupt_controller.vblank_log
        triggers == Len(log) - ppu_obs.log_at_frame_start
    IN /\ ly < SCAN_LINE_COUNT
       /\ ppu_obs.ly_trace = [i \in 1..(ly + 1) |-> i - 1]
       /\ ppu_obs.frames > 0 =>
              /\ ppu_obs.prev_trace = [i \in 1..SCAN_LINE_COUNT |-> i - 1]
              /\ ppu_obs.prev_triggers = 1
       /\ triggers = IF ly > SCREEN_HEIGHT \/ (ly = SCREEN_HEIGHT /\ ppu.current_dot_in_line > 0)
                     THEN 1 ELSE 0
       /\ \A i \in DOMAIN log : log[i] = <<SCREEN_HEIGHT, 0>>
C4_Witness ==
    /\ ppu_obs.frames = 1
    /\ current_line(ppu) = SCREEN_HEIGHT
    /\ ppu.current_dot_in_line = 4
    /\ Len(ppu.interrupt_controller.vblank_log) = 2
    /\ ppu_obs.prev_trace = [i \in 1..SCAN_LINE_COUNT |-> i - 1]

\* C20: the LCDStat interrupt is triggered exactly on a PPU cycle where
\* stat_cond is true and was false on the cycle before: once such a cycle has
\* run, the LCDStat interrupt has been requested (nothing here acknowledges
\* it), and while no such cycle has run it has not been.
C20_LcdStatOnRisingEdge ==
    (ppu_obs.stat_edges > 0) <=> (Bit(ppu.interrupt_controller.interrupt_flag, 1) = 1)

-----------------------------------------------------------------------------
(* Claims about the emulation loop *)

C22_HostAccessesExclusive ==
    /\ ~host.overlapped
    /\ ~(host.pc \in {"about_to_wait", "key"} /\ emu.pc \in {"cpu_itc", "ppu_itc"})
    /\ ~(host.pc = "draw" /\ emu.pc = "push_frame")
    /\ \A i, j \in 1..FrameCells :
          (host.pc = "draw" => i <= host.cell /\ j <= host.cell) => host.fb[i] = host.fb[j]
C22_Witness ==
    /\ host.pc = "idle"
    /\ host.fb[1] = 1
    /\ host.fb[FrameCells] = 1
    /\ host.events = MaxHostEvents
    /\ ~mmu.interrupt_controller.should_redraw
    /\ emu.pc = "ppu_itc"

\* C23 as stated: once the host has set the stop flag the emulation loop
\* observes it and terminates, and it stops only at an iteration boundary,
\* never between a CPU step and its paired PPU step.
C23_StopsOnlyAtBoundary ==
    emu.pc \in {"returned", "killed"} => emu.cpu_steps_since_ppu = 0

\* C23, amended: the loop returns only at a poll that found the stop flag set,
\* with no CPU step waiting for its PPU step, and once the flag is set the
\* thread ends: it returns at its next poll, or panics, or ends with the
\* process, which may end it anywhere in an iteration.
C23_ReturnsAtPoll ==
    /\ [](emu.pc = "returned" =>
             host.is_ended /\ emu.cpu_steps_since_ppu = 0 /\ emu.cycle = 0
             /\ emu.micro_ops = emu.iterations /\ emu.dots = 4 * emu.iterations)
    /\ (host.is_ended ~> emu.pc \in EmuEnded)
C23_Witness ==
    /\ emu.pc = "returned"
    /\ emu.iterations = 2
    /\ emu.nano_counter > 0
    /\ host.pc = "exiting"

\* C24: the visible buffer changes only at the start of a frame, when it
\* receives the complete working buffer of the frame just finished; between
\* two frame starts it is constant.
C24_VisibleChangesAtFrameStart ==
    [][ppu'.previous_frame # ppu.previous_frame => current_line(ppu) = 0]_vars

\* C32: on every PPU cycle, bit 2 of the STAT register at FF41 is 1 iff
\* LY = LYC, and updating the status never alters the enable bits 3..6 the
\* program wrote.
C32_CoincidenceInBit2 ==
    \E status \in {update_status_reg(ppu)} :
        LET stat == Get(status.memory, 65345)
            before == Get(ppu.memory, 65345)
        IN /\ Bit(stat, 2) = 1 <=> current_line(ppu) = Get(ppu.memory, 65349)
           /\ (stat \div 8) % 16 = (before \div 8) % 16

\* the locks the two threads share, who holds each, and the lock the emulation
\* thread is waiting for at its lock().unwrap() / write().unwrap()
Locks == {"itc", "mmu", "display"}
Holder(l) ==
    IF l = "itc" THEN host.itc_lock ELSE IF l = "mmu" THEN host.mmu_lock ELSE host.display_lock
EmuHolds == { l \in Locks : Holder(l) = "emu" }
HostHolds == { l \in Locks : Holder(l) = "host" }
EmuWaitsFor ==
    CASE emu.pc \in {"cpu", "ppu", "mem_io"} -> "itc"
      [] emu.pc = "mem" -> "mmu"
      [] emu.pc = "push" -> "display"
      [] OTHER -> "none"
\* where the emulation thread is once the lock it waited for at pc is its own
Acquired(pc) ==
    CASE pc = "cpu" -> {"cpu_itc"}
      [] pc = "ppu" -> {"ppu_itc"}
      [] pc = "mem" -> {"mem_mmu", "mem_io"}
      [] pc = "mem_io" -> {"mem_itc"}
      [] pc = "push" -> {"push_frame"}
      [] OTHER -> {}
\* no thread waits for a lock while holding another in the opposite order: the
\* host takes a lock only while it holds none, and the emulation thread waits
\* while holding a lock only for the controller inside the MMU
LockOrder ==
    /\ host.pc = "idle" => HostHolds = {}
    /\ Cardinality(HostHolds) <= 1
    /\ EmuWaitsFor \in {"mmu", "display"} => EmuHolds = {}
    /\ EmuWaitsFor = "itc" => EmuHolds \subseteq {"mmu"}
\* every wait of the emulation thread ends, and every lock it holds is released
\* (or the process has ended)
WaitsEnd ==
    /\ (EmuWaitsFor # "none") ~> (EmuWaitsFor = "none")
    /\ (EmuHolds # {}) ~> (EmuHolds = {} \/ host.pc = "exited")

-----------------------------------------------------------------------------
(* Claims about the pixel FIFO *)

\* the OAM entry at index as the four bytes the memory holds, and the entries
\* whose rows cover the scanline
OamBytes(index) ==
    [y_pos |-> fifo_read_memory(pixel_fifo, 65024 + 4 * index),
     x_pos |-> fifo_read_memory(pixel_fifo, 65025 + 4 * index),
     tile_id |-> fifo_read_memory(pixel_fifo, 65026 + 4 * index),
     flags |-> fifo_read_memory(pixel_fifo, 65027 + 4 * index)]
Covering(line, height) ==
    { index \in 0..39 :
        /\ OamBytes(index).y_pos - 16 <= line
        /\ line <= OamBytes(index).y_pos - 16 + height - 1 }

\* C33: at the end of OAM search the selected sprite list holds at most ten
\* entries and is exactly the first ten (or all, if fewer), in OAM address order,
\* of the 40 entries whose vertical range (8 rows, or 16 rows when LCDC bit 2 is
\* set) covers the current scanline.
C33_FirstTenCoveringSprites ==
    fifo_obs.phase = "begin_lcd_transfer" =>
        LET height == IF Bit(fifo_read_memory(pixel_fifo, 65344), 2) = 1 THEN 16 ELSE 8
            hits == Covering(fifo_obs.line, height)
            rank(index) == Cardinality({ other \in hits : other < index })
            chosen == { index \in hits : rank(index) < 10 }
        IN /\ ~pixel_fifo.panicked
           /\ Len(pixel_fifo.objects) <= 10
           /\ Len(pixel_fifo.objects) = Cardinality(chosen)
           /\ \A index \in chosen :
                 LET object == pixel_fifo.objects[rank(index) + 1]
                 IN /\ object.y_pos = OamBytes(index).y_pos
                    /\ object.x_pos = OamBytes(index).x_pos
                    /\ object.tile_id = OamBytes(index).tile_id
                    /\ object.flags = (OamBytes(index).flags \div 16) * 16
C33_Witness ==
    /\ fifo_obs.phase = "begin_lcd_transfer"
    /\ fifo_obs.line = 8
    /\ pixel_fifo.oam_size = 16
    /\ Cardinality(Covering(8, 16)) = 40
    /\ Len(pixel_fifo.objects) = 10
    /\ pixel_fifo.objects[10].tile_id = 19

\* C34: for every BG pixel and OBJ pixel merged at a dot, the BG pixel is output
\* if OBJ display is disabled or the OBJ colour is 0; otherwise the OBJ pixel if
\* its priority flag is 0; otherwise the BG pixel if the BG colour is nonzero;
\* otherwise the OBJ pixel.
C34_PixelPriority ==
    (fifo_obs.last.emitted /\ ~fifo_obs.last.aborted) =>
        LET bg == fifo_obs.last.background_pixel
            obj == fifo_obs.last.oam_pixel
        IN /\ bg.source = "BackgroundWindow"
           /\ obj.source = "OAM"
           /\ fifo_obs.last.pixel =
                 IF ~fifo_obs.last.obj_enable \/ obj.color = 0 THEN bg
                 ELSE IF ~obj.bg_priority THEN obj
                 ELSE IF bg.color # 0 THEN bg
                 ELSE obj
C34_Witness ==
    /\ fifo_obs.last.emitted
    /\ ~fifo_obs.last.aborted
    /\ fifo_obs.last.obj_enable
    /\ fifo_obs.last.oam_pixel.color # 0
    /\ fifo_obs.last.oam_pixel.bg_priority
    /\ fifo_obs.last.background_pixel.color # 0
    /\ fifo_obs.last.pixel = fifo_obs.last.background_pixel

\* C35: whenever the requested fetcher kind at a pixel emit differs from the
\* current fetcher's kind, a new fetcher is created and the BG FIFO is emptied
\* before the next pixel is taken; the window-internal scan counter increases by
\* exactly one on each scanline where the window is rendered, by zero on every
\* other scanline, and is reset to zero at the start of VBlank.
C35_FetcherRestartAndWindowCounter ==
    /\ (fifo_obs.last.emitted /\ ~fifo_obs.last.aborted
            /\ fifo_obs.last.requested # fifo_obs.last.kind_before) =>
           /\ pixel_fifo.background_window_fetcher.kind = fifo_obs.last.requested
           /\ Len(pixel_fifo.background_fifo)
                 = IF fifo_obs.last.requested = "None" THEN 0 ELSE 7
    /\ fifo_obs.phase \in {"begin_of_line", "end_of_frame"} =>
           fifo_obs.increase = IF fifo_obs.window_rendered THEN 1 ELSE 0
    /\ (fifo_obs.phase = "begin_of_line" /\ fifo_obs.line = 0) =>
           window_counter(pixel_fifo) = 0

\* C38: for every OAM content and every scanline 0..143, in both 8x8 and 8x16
\* mode, the sprite hit test and the sprite overlay position arithmetic complete
\* without 8-bit overflow or underflow aborting the emulator.
C38_SpriteArithmeticNeverAborts ==
    ~pixel_fifo.panicked
C38_Witness ==
    /\ debug_assertions
    /\ fifo_obs.frames = 1
    /\ pixel_fifo.oam_size = 16
    /\ fifo_read_memory(pixel_fifo, 65024 + 4 * 12) = 255
    /\ fifo_read_memory(pixel_fifo, 65024 + 4 * 6 + 1) = 255
    /\ ~pixel_fifo.panicked

\* C40: during pixel transfer every pixel emit finds at least one pixel in the
\* BG FIFO when a fetcher is active, also right after the FIFO is cleared by a
\* change of fetcher kind and after the SCX mod 8 discard: a pop from an empty
\* BG FIFO never occurs.
C40_NoPopFromEmptyBgFifo ==
    /\ ~fifo_obs.pop_empty
    /\ (fifo_obs.phase = "next_pixel" /\ fifo_obs.pixels = 0
            /\ pixel_fifo.background_window_fetcher.kind # "None") =>
           Len(pixel_fifo.background_fifo) >= 1
    /\ (fifo_obs.last.emitted /\ fifo_obs.last.kind_before # "None") =>
           ~fifo_obs.last.aborted
C40_Witness ==
    /\ fifo_obs.last.emitted
    /\ ~fifo_obs.last.aborted
    /\ fifo_obs.last.kind_before = "Background"
    /\ fifo_obs.last.requested = "Window"
    /\ fifo_read_memory(pixel_fifo, 65347) % 8 = 5
    /\ Len(pixel_fifo.background_fifo) = 7
    /\ ~fifo_obs.pop_empty

-----------------------------------------------------------------------------
(* Claims about the interrupt and timer controller *)

\* kind k (1..5, in priority order) has its bit set in both IE and IF
BothSet(ic, k) ==
    /\ Bit(ic.interrupt_enable, k - 1) = 1
    /\ Bit(ic.interrupt_flag, k - 1) = 1

\* C13: pending() returns None whenever master_enable is false or IE & IF has
\* none of the five interrupt bits; otherwise it returns the first kind, in the
\* order VBlank, LCDStat, Timer, Serial, Joypad, whose bit is set in both.
C13_PendingPriority ==
    LET ic == mmu.interrupt_controller
        set == {k \in 1..5 : BothSet(ic, k)}
    IN mmu_obs.polled # "NotPolled" =>
          mmu_obs.polled =
              IF ~ic.master_enable \/ set = {} THEN "None"
              ELSE IntKinds[CHOOSE k \in set : \A j \in set : k <= j]
C13_Witness ==
    /\ mmu_obs.polled = "TIMER"
    /\ mmu.interrupt_controller.interrupt_enable = 28
    /\ mmu.interrupt_controller.interrupt_flag = 255

\* TIMA after n increments from t with modulo m, and how many of them overflowed
TimaAfter(t, m, n) ==
    IF n < 256 - t THEN t + n ELSE m + ((n - (256 - t)) % (256 - m))
OverflowsAfter(t, m, n) ==
    IF n < 256 - t THEN 0 ELSE 1 + ((n - (256 - t)) \div (256 - m))

\* C16: while TAC bit 2 is set, TIMA has been incremented once for every
\* divider's worth of T-cycles accumulated (1024, 16, 64, 256 for TAC & 3 =
\* 0, 1, 2, 3), an increment from 0xFF gives TMA, and the Timer bit of IF is set
\* exactly when such an overflow has happened.
C16_TimerIncrements ==
    LET ic == mmu.interrupt_controller
        divider == CASE ic.timer_control % 4 = 0 -> 1024
                     [] ic.timer_control % 4 = 1 -> 16
                     [] ic.timer_control % 4 = 2 -> 64
                     [] ic.timer_control % 4 = 3 -> 256
        n == mmu_obs.ticks \div divider
    IN Bit(ic.timer_control, 2) = 1 =>
          /\ ic.timer_counter = TimaAfter(mmu_obs.tima_at_start, ic.timer_modulo, n)
          /\ ic.timer_sub_counter = mmu_obs.ticks % divider
          /\ Bit(ic.interrupt_flag, 2) = 1
                <=> OverflowsAfter(mmu_obs.tima_at_start, ic.timer_modulo, n) > 0
C16_Witness ==
    /\ mmu.interrupt_controller.timer_control = 5
    /\ mmu.interrupt_controller.timer_modulo = 253
    /\ mmu_obs.tima_at_start = 254
    /\ mmu_obs.ticks = 76
    /\ mmu.interrupt_controller.timer_counter = 255
    /\ Bit(mmu.interrupt_controller.interrupt_flag, 2) = 1

\* the key each of bits 3..0 of P1 reports on the direction line and on the button line
DirectionKey(bit) == <<"Right", "Left", "Up", "Down">>[bit + 1]
ButtonKey(bit) == <<"A", "B", "Select", "Start">>[bit + 1]

\* C19: a call of set_key returns, and afterwards every read of FF00 has bit 3 =
\* Down/Start, bit 2 = Up/Select, bit 1 = Left/B, bit 0 = Right/A equal to 0
\* exactly when the key's line is selected and the key is pressed.
C19_JoypadReflectsKeys ==
    LET ic == mmu.interrupt_controller
        value == read_memory(mmu, 65280, debug_assertions)
    IN mmu_obs.key_changes > 0 =>
          /\ ~mmu.panicked
          /\ \A bit \in 0..3 :
                Bit(value, bit) = 0 <=>
                    \/ ic.select_directions /\ DirectionKey(bit) \in ic.keys_state
                    \/ ic.select_buttons /\ ButtonKey(bit) \in ic.keys_state

\* C30: while TAC bit 2 is clear, advancing the timers by any number of ticks
\* leaves TIMA and the Timer bit of IF unchanged, and DIV still increments once
\* per 256 accumulated T-cycles.
C30_DisabledTimerHolds ==
    LET ic == mmu.interrupt_controller
    IN Bit(ic.timer_control, 2) = 0 =>
          /\ ic.timer_counter = mmu_obs.tima_at_start
          /\ Bit(ic.interrupt_flag, 2) = 0
          /\ ic.divider_register = (mmu_obs.ticks \div 256) % 256
          /\ ic.divider_counter = mmu_obs.ticks % 256

-----------------------------------------------------------------------------
(* Claims about interrupt service and HALT / STOP *)

-----------------------------------------------------------------------------
(* Specifications.  Each starts one subsystem in the states its constructor *)
(* and its inputs give and leaves the other subsystems as constructed.      *)

InitCPU ==
    /\ debug_assertions \in BOOLEAN
    /\ cpu \in InitRegs
    /\ pipeline = <<>>
    /\ memory = <<>>
    /\ cpu_panicked = FALSE
    /\ obs = ObsInit
    /\ irq = IrqInit
    /\ emu = EmuInit
    /\ host = HostInit
    /\ mmu = NewMMU(SimpleMBC, FALSE)
    /\ mmu_obs = MmuObsInit
    /\ ppu = NewPPU(0, 0)
    /\ ppu_obs = PpuObsInit
    /\ pixel_fifo = NewPixelFIFO(<<>>)
    /\ fifo_obs = FifoObsInit
NextCPU == step
SpecCPU == InitCPU /\ [][NextCPU]_vars

InitMMU ==
    /\ debug_assertions \in BOOLEAN
    /\ cpu = NewCPU
    /\ pipeline = <<>>
    /\ memory = <<>>
    /\ cpu_panicked = FALSE
    /\ obs = ObsInit
    /\ irq = IrqInit
    /\ emu = EmuInit
    /\ host = HostInit
    /\ \E config \in Configs : mmu = NewMMU(config[1], config[2])
    /\ mmu_obs = MmuObsInit
    /\ ppu = NewPPU(0, 0)
    /\ ppu_obs = PpuObsInit
    /\ pixel_fifo = NewPixelFIFO(<<>>)
    /\ fifo_obs = FifoObsInit
NextMMU ==
    \/ \E addr \in Addrs, value \in Values : Write(addr, value, MaxWrites)
    \/ \E addr \in Addrs : Read(addr)
SpecMMU == InitMMU /\ [][NextMMU]_vars

InitCart ==
    /\ debug_assertions \in BOOLEAN
    /\ cpu = NewCPU
    /\ pipeline = <<>>
    /\ memory = <<>>
    /\ cpu_panicked = FALSE
    /\ obs = ObsInit
    /\ irq = IrqInit
    /\ emu = EmuInit
    /\ host = HostInit
    /\ \E cartridge \in Cartridges : mmu = NewMMU(cartridge, FALSE)
    /\ mmu_obs = MmuObsInit
    /\ ppu = NewPPU(0, 0)
    /\ ppu_obs = PpuObsInit
    /\ pixel_fifo = NewPixelFIFO(<<>>)
    /\ fifo_obs = FifoObsInit
NextCart ==
    \/ \E w \in CartWrites : Write(w[1], w[2], MaxCartWrites)
    \/ \E addr \in CartReads : Read(addr)
SpecCart == InitCart /\ [][NextCart]_vars

NextDMA ==
    \/ \E w \in DmaWrites :
           /\ mmu.waiting_dma.pending => mmu.waiting_dma.timer \in DmaWriteMoments
           /\ Write(w[1], w[2], MaxDmaWrites)
    \/ Tick
SpecDMA == InitMMU /\ [][NextDMA]_vars

NextSerial == \E w \in SerialWrites : Write(w[1], w[2], MaxSerialWrites)
SpecSerial == InitMMU /\ [][NextSerial]_vars

InitPending ==
    /\ debug_assertions = FALSE
    /\ cpu = NewCPU
    /\ pipeline = <<>>
    /\ memory = <<>>
    /\ cpu_panicked = FALSE
    /\ obs = ObsInit
    /\ irq = IrqInit
    /\ emu = EmuInit
    /\ host = HostInit
    /\ \E master_enable \in BOOLEAN, ie \in EnableValues, if \in FlagValues :
           mmu = [NewMMU(SimpleMBC, FALSE) EXCEPT
                     !.interrupt_controller.master_enable = master_enable,
                     !.interrupt_controller.interrupt_enable = ie,
                     !.interrupt_controller.interrupt_flag = if]
    /\ mmu_obs = MmuObsInit
    /\ ppu = NewPPU(0, 0)
    /\ ppu_obs = PpuObsInit
    /\ pixel_fifo = NewPixelFIFO(<<>>)
    /\ fifo_obs = FifoObsInit
NextPending == Poll
SpecPending == InitPending /\ [][NextPending]_vars

NextJoypad ==
    \/ \E w \in JoypadWrites : Write(w[1], w[2], MaxJoypadWrites)
    \/ \E key \in Keys, pressed \in BOOLEAN : ChangeKeyState(key, pressed)
SpecJoypad == InitMMU /\ [][NextJoypad]_vars

InitTimer ==
    /\ debug_assertions = FALSE
    /\ cpu = NewCPU
    /\ pipeline = <<>>
    /\ memory = <<>>
    /\ cpu_panicked = FALSE
    /\ obs = ObsInit
    /\ irq = IrqInit
    /\ emu = EmuInit
    /\ host = HostInit
    /\ \E tac \in TimerControls, tima \in TimerCounters, tma \in TimerModulos :
           /\ mmu = [NewMMU(SimpleMBC, FALSE) EXCEPT
                        !.interrupt_controller.timer_control = tac,
                        !.interrupt_controller.timer_counter = tima,
                        !.interrupt_controller.timer_modulo = tma]
           /\ mmu_obs = [MmuObsInit EXCEPT !.tima_at_start = tima]
    /\ ppu = NewPPU(0, 0)
    /\ ppu_obs = PpuObsInit
    /\ pixel_fifo = NewPixelFIFO(<<>>)
    /\ fifo_obs = FifoObsInit
NextTimer == \E ticks \in TickCounts : TimerStep(ticks)
SpecTimer == InitTimer /\ [][NextTimer]_vars

IrqRegs ==
    { Regs(1, 176, 0, 19, 0, 216, 1, 77, 65534, 256),
      Regs(5, 112, 255, 255, 128, 0, 255, 255, 1, 4660) }
InitIRQ ==
    /\ debug_assertions = FALSE
    /\ cpu \in IrqRegs
    /\ pipeline = <<>>
    /\ memory = <<>>
    /\ cpu_panicked = FALSE
    /\ obs = ObsInit
    /\ \E master_enable \in BOOLEAN, ie \in {0, 5, 31} :
           /\ mmu = [NewMMU(SimpleMBC, FALSE) EXCEPT
                        !.interrupt_controller.master_enable = master_enable,
                        !.interrupt_controller.interrupt_enable = ie]
           /\ irq = [IrqInit EXCEPT !.initial_enable = master_enable]
    /\ emu = EmuInit
    /\ host = HostInit
    /\ mmu_obs = MmuObsInit
    /\ ppu = NewPPU(0, 0)
    /\ ppu_obs = PpuObsInit
    /\ pixel_fifo = NewPixelFIFO(<<>>)
    /\ fifo_obs = FifoObsInit
NextIRQ ==
    \/ step_irq
    \/ \E kind \in TriggerKinds : Trigger(kind)
SpecIRQ == InitIRQ /\ [][NextIRQ]_vars

InitPPU ==
    /\ debug_assertions = FALSE
    /\ cpu = NewCPU
    /\ pipeline = <<>>
    /\ memory = <<>>
    /\ cpu_panicked = FALSE
    /\ obs = ObsInit
    /\ irq = IrqInit
    /\ emu = EmuInit
    /\ host = HostInit
    /\ mmu = NewMMU(SimpleMBC, FALSE)
    /\ mmu_obs = MmuObsInit
    /\ \E scroll_x \in ScrollXs, lyc \in LYCs : ppu = NewPPU(scroll_x, lyc)
    /\ ppu_obs = PpuObsInit
    /\ pixel_fifo = NewPixelFIFO(<<>>)
    /\ fifo_obs = FifoObsInit
NextPPU == ppu_step
SpecPPU == InitPPU /\ [][NextPPU]_vars

\* the PPU over a STAT register with interrupt sources enabled
StatEnables == { 64, 80 }
StatLYCs == { 2 }
InitStat ==
    /\ debug_assertions = FALSE
    /\ cpu = NewCPU
    /\ pipeline = <<>>
    /\ memory = <<>>
    /\ cpu_panicked = FALSE
    /\ obs = ObsInit
    /\ irq = IrqInit
    /\ emu = EmuInit
    /\ host = HostInit
    /\ mmu = NewMMU(SimpleMBC, FALSE)
    /\ mmu_obs = MmuObsInit
    /\ \E stat \in StatEnables, lyc \in StatLYCs :
          ppu = [NewPPU(0, lyc) EXCEPT !.memory = Put(@, 65345, stat)]
    /\ ppu_obs = PpuObsInit
    /\ pixel_fifo = NewPixelFIFO(<<>>)
    /\ fifo_obs = FifoObsInit
NextStat == ppu_step
SpecStat == InitStat /\ [][NextStat]_vars

\* the emulation loop over a CPU at the cartridge entry point and a PPU at the
\* start of a frame
InitLoop ==
    /\ debug_assertions = FALSE
    /\ cpu = NewCPU
    /\ pipeline = <<>>
    /\ memory = <<>>
    /\ cpu_panicked = FALSE
    /\ obs = ObsInit
    /\ irq = IrqInit
    /\ emu = EmuInit
    /\ host = HostInit
    /\ mmu = NewMMU(SimpleMBC, FALSE)
    /\ mmu_obs = MmuObsInit
    /\ ppu = NewPPU(0, 0)
    /\ ppu_obs = PpuObsInit
    /\ pixel_fifo = NewPixelFIFO(<<>>)
    /\ fifo_obs = FifoObsInit
NextLoop == loop_cpu_step \/ loop_ppu_step
SpecLoop == InitLoop /\ [][NextLoop]_vars

\* the emulation thread and the host's event loop
InitThreads ==
    /\ debug_assertions = FALSE
    /\ cpu = NewCPU
    /\ pipeline = <<>>
    /\ memory = <<>>
    /\ cpu_panicked = FALSE
    /\ obs = ObsInit
    /\ irq = IrqInit
    /\ emu = EmuThreadInit
    /\ host = HostThreadInit
    /\ mmu = NewMMU(SimpleMBC, FALSE)
    /\ mmu_obs = MmuObsInit
    /\ ppu = NewPPU(0, 0)
    /\ ppu_obs = PpuObsInit
    /\ pixel_fifo = NewPixelFIFO(<<>>)
    /\ fifo_obs = FifoObsInit
NextThreads ==
    \/ emu_poll \/ emu_inner \/ emu_cpu_lock \/ emu_cpu_step
    \/ emu_mem_lock \/ emu_mem_access \/ emu_mem_itc_lock \/ emu_mem_io_reg
    \/ emu_ppu_lock \/ emu_ppu_cycle \/ emu_push_lock \/ push_frame
    \/ host_redraw_requested \/ draw_into_fb \/ host_redraw_tiles \/ draw_tiles_into_fb
    \/ host_about_to_wait \/ host_should_redraw
    \/ host_keyboard_input \/ host_change_key_state \/ host_loop_exiting \/ process_exit
SpecThreads == InitThreads /\ [][NextThreads]_vars

\* the same threads, the emulation thread scheduled as long as it can run
SpecThreadsFair == InitThreads /\ [][NextThreads]_vars /\ WF_vars(emu_thread_run)

\* the same threads, both scheduled: the emulation thread as long as it can
\* run, and the host's handlers to their end once they have started
SpecLocks ==
    InitThreads /\ [][NextThreads]_vars /\ WF_vars(emu_thread_run) /\ WF_vars(host_handler_run)

\* the PPU drawing the first scanlines of a frame through a background palette
\* that maps colour 0 of the (blank) tiles to a visible shade
Palettes == { 1, 27 }
InitFrame ==
    /\ debug_assertions = FALSE
    /\ cpu = NewCPU
    /\ pipeline = <<>>
    /\ memory = <<>>
    /\ cpu_panicked = FALSE
    /\ obs = ObsInit
    /\ irq = IrqInit
    /\ emu = EmuInit
    /\ host = HostInit
    /\ mmu = NewMMU(SimpleMBC, FALSE)
    /\ mmu_obs = MmuObsInit
    /\ \E palette \in Palettes : ppu = [NewPPU(0, 0) EXCEPT !.memory = Put(@, 65351, palette)]
    /\ ppu_obs = PpuObsInit
    /\ pixel_fifo = NewPixelFIFO(<<>>)
    /\ fifo_obs = FifoObsInit
NextFrame == ppu_step_first_lines
SpecFrame == InitFrame /\ [][NextFrame]_vars

\* the CPU over register files whose registers hold both values of every bit,
\* under every state of the flags Z, N, H and C
BitValues == { 90, 165 }
InitBit ==
    /\ debug_assertions \in BOOLEAN
    /\ \E v \in BitValues, w \in BitValues, f \in 0..15 :
          cpu = Regs(v, f * 16, w, v, w, v, w, v, 65534, 256)
    /\ pipeline = <<>>
    /\ memory = <<>>
    /\ cpu_panicked = FALSE
    /\ obs = ObsInit
    /\ irq = IrqInit
    /\ emu = EmuInit
    /\ host = HostInit
    /\ mmu = NewMMU(SimpleMBC, FALSE)
    /\ mmu_obs = MmuObsInit
    /\ ppu = NewPPU(0, 0)
    /\ ppu_obs = PpuObsInit
    /\ pixel_fifo = NewPixelFIFO(<<>>)
    /\ fifo_obs = FifoObsInit
NextBit == step_bit_test
SpecBit == InitBit /\ [][NextBit]_vars

StackPointers == {0, 15, 128, 255, 65528, 65535}
InitOffset ==
    /\ debug_assertions \in BOOLEAN
    /\ \E sp \in StackPointers, f \in {0, 240} :
          cpu = Regs(1, f, 2, 3, 4, 5, 6, 7, sp, 256)
    /\ pipeline = <<>>
    /\ memory = <<>>
    /\ cpu_panicked = FALSE
    /\ obs = ObsInit
    /\ irq = IrqInit
    /\ emu = EmuInit
    /\ host = HostInit
    /\ mmu = NewMMU(SimpleMBC, FALSE)
    /\ mmu_obs = MmuObsInit
    /\ ppu = NewPPU(0, 0)
    /\ ppu_obs = PpuObsInit
    /\ pixel_fifo = NewPixelFIFO(<<>>)
    /\ fifo_obs = FifoObsInit
NextOffset == step_add_offset
SpecOffset == InitOffset /\ [][NextOffset]_vars

\* the pixel FIFO over a frame, in a build with overflow checks (the build in
\* which u8 arithmetic can abort; without them the same operations wrap)
InitFifo ==
    /\ debug_assertions = TRUE
    /\ cpu = NewCPU
    /\ pipeline = <<>>
    /\ memory = <<>>
    /\ cpu_panicked = FALSE
    /\ obs = ObsInit
    /\ irq = IrqInit
    /\ emu = EmuInit
    /\ host = HostInit
    /\ mmu = NewMMU(SimpleMBC, FALSE)
    /\ mmu_obs = MmuObsInit
    /\ ppu = NewPPU(0, 0)
    /\ ppu_obs = PpuObsInit
    /\ \E config \in FifoConfigs : pixel_fifo = NewPixelFIFO(FifoMemory(config))
    /\ fifo_obs = FifoObsInit
NextFifo ==
    \/ fifo_begin_of_line
    \/ fifo_end_of_oam_search
    \/ fifo_begin_lcd_transfer
    \/ fifo_next_pixel
    \/ fifo_end_of_line
    \/ fifo_end_of_frame
    \/ \E w \in RegWrites : fifo_write_reg(w[1], w[2])
SpecFifo == InitFifo /\ [][NextFifo]_vars

====
